---- MODULE Spec2Model ----
(***************************************************************************)
(* Model of the game-tracker library service: the `games` table, the       *)
(* persistence helpers of game-tracker-core/src/db.rs and the orchestration *)
(* of game-tracker-core/src/service.rs (create with enrichment, re-index,   *)
(* status update, delete, reads), the launcher scanners of                  *)
(* game-tracker-core/src/indexers, the route handlers of src/handlers.rs    *)
(* and the desktop commands of src-tauri/src/commands.rs.                   *)
(*                                                                          *)
(* Conventions.  Option<T> is a sequence of length <= 1 (None == <<>>,      *)
(* Some(v) == <<v>>).  Result<T, E> is the pair <<"Ok", v>> or              *)
(* <<"Err", e>>.  Rust Strings that the code inspects or rewrites (titles,  *)
(* paths) are sequences of one-character strings.                           *)
(***************************************************************************)
EXTENDS Integers, Sequences, FiniteSets, TLC

VARIABLES
    games,      \* rows of the `games` table
    now,        \* the store's CURRENT_TIMESTAMP
    target_os,  \* the build target (cfg(target_os = ...))
    ret,        \* the last completed operation: its arguments, the calls it made, its result
    pass,       \* the locals of the index_all call in progress, and its position
    pc,         \* position of each concurrent upsert_game_by_source call
    frame,      \* the locals of each concurrent call: game, existing, result
    mutex,      \* holder of the desktop ServiceState mutex, if any
    task,       \* each desktop command in flight: its arguments and its position
    disk,       \* the directories the launcher scanners read
    app         \* the desktop shell: its setup hook, the task it spawns, the managed state

vars == <<games, now, target_os, ret, pass, pc, frame, mutex, task, disk, app>>

----------------------------------------------------------------------------
(* Bounds of the model *)

MaxRows == 2
MaxEnriched == 1
MaxClock == 1
MaxScan == 2
MaxEntries == 3

----------------------------------------------------------------------------
(* Option and Result *)

None == <<>>
Some(v) == <<v>>
IsSome(o) == o # <<>>
Unwrap(o) == o[1]

Ok(v) == <<"Ok", v>>
Err(e) == <<"Err", e>>
IsOk(r) == r[1] = "Ok"
IsErr(r) == r[1] = "Err"

Unit == "()"

----------------------------------------------------------------------------
(* Strings and paths *)

\* str::replace(from, to) for a one-character pattern
RECURSIVE Replace(_, _, _)
Replace(s, from, to) ==
    IF s = <<>> THEN <<>>
    ELSE <<IF Head(s) = from THEN to ELSE Head(s)>> \o Replace(Tail(s), from, to)

DigitChars == <<"0", "1", "2", "3", "4", "5", "6", "7", "8", "9">>

RECURSIVE NatToStr(_)
NatToStr(n) ==
    IF n < 10 THEN <<DigitChars[n + 1]>>
    ELSE NatToStr(n \div 10) \o <<DigitChars[(n % 10) + 1]>>

\* Display of an i32, as format!("{}", rawg_id) prints it
IntToStr(n) == IF n < 0 THEN <<"-">> \o NatToStr(0 - n) ELSE NatToStr(n)

\* PathBuf::join: an absolute component replaces the base; a separator is
\* added unless the base is empty or already ends with one
PathJoin(base, name) ==
    IF name # <<>> /\ name[1] = "/" THEN name
    ELSE IF base = <<>> \/ base[Len(base)] = "/" THEN base \o name
    ELSE base \o <<"/">> \o name

\* Path::extension of a file name: what follows its last dot, unless the name
\* has no dot or its only dot is the first character
Extension(name) ==
    LET dots == {i \in 1..Len(name) : name[i] = "."}
    IN  IF dots = {} THEN None
        ELSE LET k == CHOOSE i \in dots : \A j \in dots : j <= i
             IN  IF k = 1 THEN None ELSE Some(SubSeq(name, k + 1, Len(name)))

UpperChars ==
    <<"A", "B", "C", "D", "E", "F", "G", "H", "I", "J", "K", "L", "M",
      "N", "O", "P", "Q", "R", "S", "T", "U", "V", "W", "X", "Y", "Z">>
LowerChars ==
    <<"a", "b", "c", "d", "e", "f", "g", "h", "i", "j", "k", "l", "m",
      "n", "o", "p", "q", "r", "s", "t", "u", "v", "w", "x", "y", "z">>

\* str::to_lowercase on the ASCII range
ToLowercase(str) ==
    [i \in 1..Len(str) |->
        IF \E k \in 1..26 : UpperChars[k] = str[i]
        THEN LowerChars[CHOOSE k \in 1..26 : UpperChars[k] = str[i]]
        ELSE str[i]]

\* str::contains
Contains(str, pat) ==
    \E i \in 0..(Len(str) - Len(pat)) : SubSeq(str, i + 1, i + Len(pat)) = pat

\* `id as i32` of a positive i64 row id: unchanged up to i32::MAX, wrapped above it
AsI32(n) ==
    IF n <= 2147483647 THEN n ELSE ((n - 2147483647) - 2147483647) - 2

\* GameService.icons_dir
IconsDir == <<"i">>

JpgExt == <<".", "j", "p", "g">>
IcoExt == <<".", "i", "c", "o">>

----------------------------------------------------------------------------
(* models.rs: Game, CreateGameInput, DiscoveredGame; rawg.rs: RawgGame *)

\* A Game value with every optional field absent, as the struct literals of
\* create_game and discovered_to_game build it
Game(title, platform, status, source, source_id, install_path) ==
    [id |-> 0, title |-> title, platform |-> platform, status |-> status,
     description |-> None, genre |-> None, release_year |-> None,
     icon_path |-> None, cover_url |-> None, rawg_id |-> None,
     exe_path |-> None, playtime_hours |-> 0, rating |-> None,
     added_date |-> <<>>, last_played |-> None,
     source |-> source, source_id |-> source_id, install_path |-> install_path]

CreateGameInput(title, platform, status, rawg_id, exe_path, source, source_id, install_path) ==
    [title |-> title, platform |-> platform, status |-> status,
     rawg_id |-> rawg_id, exe_path |-> exe_path,
     source |-> source, source_id |-> source_id, install_path |-> install_path]

DiscoveredGame(title, exe_path, install_path, source, source_id) ==
    [title |-> title, platform |-> "PC", exe_path |-> exe_path,
     install_path |-> install_path, source |-> source, source_id |-> source_id]

RawgGame(id, background_image, genres, description_raw) ==
    [id |-> id, name |-> "n", background_image |-> background_image,
     released |-> None, genres |-> genres, description_raw |-> description_raw]

----------------------------------------------------------------------------
(* The `games` table *)

MaxOf(S) == CHOOSE m \in S : \A x \in S : x <= m

\* The row id SQLite assigns to an inserted row
NextRowId(table) ==
    IF table = {} THEN 1 ELSE MaxOf({r.id : r \in table}) + 1

\* Column defaults of the columns insert_game does not bind
SchemaDefaults(row, t) ==
    [row EXCEPT !.playtime_hours = 0, !.rating = None,
                !.added_date = <<t>>, !.last_played = None]

\* Constraints of the table on a new row: none on (source, source_id)
SchemaAccepts(table, row) == TRUE

\* db::insert_game: [games, result]; `outcome` is the store's answer to the statement
insert_game(table, game, t, outcome) ==
    LET rowid == NextRowId(table)
        row == SchemaDefaults([game EXCEPT !.id = rowid], t)
    IN  IF outcome = "Ok" /\ SchemaAccepts(table, row)
        THEN [games |-> table \cup {row}, result |-> Ok(rowid)]
        ELSE [games |-> table, result |-> Err("sqlx")]

----------------------------------------------------------------------------
(* icon_extract.rs *)

\* extract_exe_icon: compiled to the exeico call on Windows only
extract_exe_icon(os, exeico) ==
    IF os = "windows"
    THEN IF exeico = "Ok" THEN Ok(Unit) ELSE Err("exeico")
    ELSE Err("Icon extraction only supported on Windows")

\* download_icon: fails when the request or the write fails
download_icon(download) ==
    IF download = "Ok" THEN Ok(Unit) ELSE Err("download")

----------------------------------------------------------------------------
(* service.rs: GameService::create_game *)

\* Variant: the base record starts from a fixed status rather than the input's
BaseGame_DefaultStatus(input) ==
    Game(input.title, input.platform, "Backlog",
         input.source, input.source_id, input.install_path)

\* Variant: the struct literal copies the supplied executable path
BaseGame_KeepsExe(input) ==
    [Game(input.title, input.platform, input.status,
          input.source, input.source_id, input.install_path)
       EXCEPT !.exe_path = input.exe_path]

\* The base record (the struct literal)
BaseGame(input) ==
    Game(input.title, input.platform, input.status,
         input.source, input.source_id, input.install_path)

\* Variant: the selected catalog id is stored before the fetch is known to succeed
EnrichFromRawg_KeepsId(st, input, env) ==
    IF IsSome(input.rawg_id)
    THEN LET rawg_id == Unwrap(input.rawg_id)
             fetched == st.calls \o << <<"get_game_details", env.fetch[1]>> >>
             g0 == [st.game EXCEPT !.rawg_id = Some(rawg_id)]
         IN  IF IsOk(env.fetch)
             THEN LET rg == env.fetch[2]
                      g == [g0 EXCEPT
                              !.description = rg.description_raw,
                              !.genre = IF rg.genres = <<>> THEN None
                                        ELSE Some(rg.genres[1].name),
                              !.cover_url = rg.background_image]
                  IN  IF IsSome(rg.background_image)
                      THEN LET icon_path_str ==
                                   PathJoin(IconsDir, IntToStr(rawg_id) \o JpgExt)
                           IN  [game |-> [g EXCEPT !.icon_path = Some(icon_path_str)],
                                calls |-> fetched \o
                                   << <<"download_icon", download_icon(env.download)[1]>> >>]
                      ELSE [game |-> g, calls |-> fetched]
             ELSE [game |-> g0, calls |-> fetched]
    ELSE st

\* "Enrich from RAWG if a match was selected"; st = [game, calls]
EnrichFromRawg(st, input, env) ==
    IF IsSome(input.rawg_id)
    THEN LET rawg_id == Unwrap(input.rawg_id)
             fetched == st.calls \o << <<"get_game_details", env.fetch[1]>> >>
         IN  IF IsOk(env.fetch)
             THEN LET rg == env.fetch[2]
                      g == [st.game EXCEPT
                              !.description = rg.description_raw,
                              !.genre = IF rg.genres = <<>> THEN None
                                        ELSE Some(rg.genres[1].name),
                              !.cover_url = rg.background_image,
                              !.rawg_id = Some(rawg_id)]
                  IN  IF IsSome(rg.background_image)
                      THEN LET icon_path_str ==
                                   PathJoin(IconsDir, IntToStr(rawg_id) \o JpgExt)
                           IN  [game |-> [g EXCEPT !.icon_path = Some(icon_path_str)],
                                calls |-> fetched \o
                                   << <<"download_icon", download_icon(env.download)[1]>> >>]
                      ELSE [game |-> g, calls |-> fetched]
             ELSE [game |-> st.game, calls |-> fetched]
    ELSE st

\* Variant: the executable path is stored whether or not the extraction succeeds
ExeIconFallback_KeepsExe(st, input, os, env) ==
    IF st.game.icon_path = None /\ IsSome(input.exe_path)
       /\ Unwrap(input.exe_path) # <<>>
    THEN LET exe_path == Unwrap(input.exe_path)
             icon_path_str ==
                 PathJoin(IconsDir, Replace(st.game.title, " ", "_") \o IcoExt)
             res == extract_exe_icon(os, env.exeico)
             called == st.calls \o << <<"extract_exe_icon", res[1]>> >>
             g == [st.game EXCEPT !.exe_path = Some(exe_path)]
         IN  IF IsOk(res)
             THEN [game |-> [g EXCEPT !.icon_path = Some(icon_path_str)],
                   calls |-> called]
             ELSE [game |-> g, calls |-> called]
    ELSE st

\* "Fallback: extract .exe icon for PC games"
ExeIconFallback(st, input, os, env) ==
    IF st.game.icon_path = None /\ IsSome(input.exe_path)
       /\ Unwrap(input.exe_path) # <<>>
    THEN LET exe_path == Unwrap(input.exe_path)
             icon_path_str ==
                 PathJoin(IconsDir, Replace(st.game.title, " ", "_") \o IcoExt)
             res == extract_exe_icon(os, env.exeico)
             called == st.calls \o << <<"extract_exe_icon", res[1]>> >>
         IN  IF IsOk(res)
             THEN [game |-> [st.game EXCEPT !.icon_path = Some(icon_path_str),
                                            !.exe_path = Some(exe_path)],
                   calls |-> called]
             ELSE [game |-> st.game, calls |-> called]
    ELSE st

\* Variant: the insert's result is dropped (`let _ = db::insert_game(..)`) and
\* the assembled record is returned
InsertAndReturn_SwallowsError(table, st, t, env) ==
    LET ins == insert_game(table, st.game, t, env.insert)
        called == st.calls \o << <<"insert_game", ins.result[1]>> >>
    IN  [games |-> ins.games, built |-> st.game, calls |-> called,
         result |-> Ok(st.game)]

\* The final insert and the returned value; [games, built, calls, result], where
\* built is the assembled `game` handed to the insert
InsertAndReturn(table, st, t, env) ==
    LET ins == insert_game(table, st.game, t, env.insert)
        called == st.calls \o << <<"insert_game", ins.result[1]>> >>
    IN  IF IsOk(ins.result)
        THEN [games |-> ins.games, built |-> st.game, calls |-> called,
              result |-> Ok([st.game EXCEPT !.id = AsI32(ins.result[2])])]
        ELSE [games |-> table, built |-> st.game, calls |-> called,
              result |-> Err("sqlx")]

create_game(table, t, os, input, env) ==
    LET st0 == [game |-> BaseGame(input), calls |-> <<>>]
        st1 == EnrichFromRawg(st0, input, env)
        st2 == ExeIconFallback(st1, input, os, env)
    IN  InsertAndReturn(table, st2, t, env)

----------------------------------------------------------------------------
(* db.rs: upsert_game_by_source, update_game_status, delete_game *)

\* "SELECT * FROM games WHERE source = ? AND source_id = ?" with fetch_optional:
\* the possible values of `existing` (a NULL never compares equal; with several
\* matching rows the store returns any one of them)
SelectBySource(table, game) ==
    LET matching == {r \in table :
                        /\ IsSome(game.source) /\ r.source = game.source
                        /\ IsSome(game.source_id) /\ r.source_id = game.source_id}
    IN  IF matching = {} THEN {None} ELSE {Some(r) : r \in matching}

\* Variant: the UPDATE writes the whole discovered record, status included
UpdateFromIndex_WritesStatus(table, game, id) ==
    {IF r.id = id
     THEN [r EXCEPT !.install_path = game.install_path,
                    !.exe_path = game.exe_path,
                    !.title = game.title,
                    !.status = game.status]
     ELSE r : r \in table}

\* Variant: the UPDATE has lost its WHERE clause
UpdateFromIndex_EveryRow(table, game, id) ==
    {[r EXCEPT !.install_path = game.install_path,
               !.exe_path = game.exe_path,
               !.title = game.title] : r \in table}

\* "UPDATE games SET install_path = ?, exe_path = ?, title = ? WHERE id = ?"
UpdateFromIndex(table, game, id) ==
    {IF r.id = id
     THEN [r EXCEPT !.install_path = game.install_path,
                    !.exe_path = game.exe_path,
                    !.title = game.title]
     ELSE r : r \in table}

\* Variant: the write is a single insert-or-update statement that looks the key
\* up again when it runs
WriteBySource_Atomic(table, game, found, t, outcome) ==
    LET again == CHOOSE f \in SelectBySource(table, game) : TRUE
    IN  IF IsSome(again)
        THEN IF outcome = "Ok"
             THEN [games |-> UpdateFromIndex(table, game, Unwrap(again).id),
                   result |-> Ok(Unwrap(again).id)]
             ELSE [games |-> table, result |-> Err("sqlx")]
        ELSE insert_game(table, game, t, outcome)

\* Variant: the branch on `existing` is lost and every call inserts
WriteBySource_AlwaysInserts(table, game, found, t, outcome) ==
    insert_game(table, game, t, outcome)

\* The `if let Some(existing) ... else` of upsert_game_by_source; [games, result]
WriteBySource(table, game, found, t, outcome) ==
    IF IsSome(found)
    THEN IF outcome = "Ok"
         THEN [games |-> UpdateFromIndex(table, game, Unwrap(found).id),
               result |-> Ok(Unwrap(found).id)]
         ELSE [games |-> table, result |-> Err("sqlx")]
    ELSE insert_game(table, game, t, outcome)

\* db::upsert_game_by_source run without interruption: the set of possible
\* [games, existing, result]; env = [select, write] are the store's answers
upsert_game_by_source(table, game, t, env) ==
    IF env.select = "Ok"
    THEN {LET w == WriteBySource(table, game, found, t, env.write)
          IN  [games |-> w.games, existing |-> found, result |-> w.result] :
              found \in SelectBySource(table, game)}
    ELSE {[games |-> table, existing |-> None, result |-> Err("sqlx")]}

\* db::get_game_by_id (fetch_one): a missing row is an error of the read
get_game_by_id(table, id, outcome) ==
    IF outcome = "Ok"
    THEN IF \E r \in table : r.id = id
         THEN Ok(CHOOSE r \in table : r.id = id)
         ELSE Err("RowNotFound")
    ELSE Err("sqlx")

\* Variant: last_played is stamped only the first time
update_game_status_StampsOnce(table, id, status, t, outcome) ==
    IF outcome = "Ok"
    THEN [games |-> {IF r.id = id
                     THEN [r EXCEPT !.status = status,
                                    !.last_played = IF @ = None THEN Some(<<t>>) ELSE @]
                     ELSE r : r \in table},
          result |-> Ok(Unit)]
    ELSE [games |-> table, result |-> Err("sqlx")]

\* Variant: a statement that affects no row is reported as an error
update_game_status_RequiresRow(table, id, status, t, outcome) ==
    IF outcome = "Ok"
    THEN IF \E r \in table : r.id = id
         THEN [games |-> {IF r.id = id
                          THEN [r EXCEPT !.status = status, !.last_played = Some(<<t>>)]
                          ELSE r : r \in table},
               result |-> Ok(Unit)]
         ELSE [games |-> table, result |-> Err("RowNotFound")]
    ELSE [games |-> table, result |-> Err("sqlx")]

\* db::update_game_status; [games, result]
update_game_status(table, id, status, t, outcome) ==
    IF outcome = "Ok"
    THEN [games |-> {IF r.id = id
                     THEN [r EXCEPT !.status = status, !.last_played = Some(<<t>>)]
                     ELSE r : r \in table},
          result |-> Ok(Unit)]
    ELSE [games |-> table, result |-> Err("sqlx")]

\* db::delete_game; [games, result]
delete_game(table, id, outcome) ==
    IF outcome = "Ok"
    THEN [games |-> {r \in table : r.id # id}, result |-> Ok(Unit)]
    ELSE [games |-> table, result |-> Err("sqlx")]

----------------------------------------------------------------------------
(* db.rs: the reads behind the list and the stats *)

\* The orders in which `ORDER BY added_date DESC` can return the rows
NewestFirst(table) ==
    {l \in [1..Cardinality(table) -> table] :
        /\ \A i, j \in 1..Cardinality(table) : i # j => l[i] # l[j]
        /\ \A i, j \in 1..Cardinality(table) :
              i < j => l[i].added_date[1] >= l[j].added_date[1]}

\* db::get_all_games; the set of results the store can give
get_all_games(table, outcome) ==
    IF outcome = "Ok" THEN {Ok(l) : l \in NewestFirst(table)} ELSE {Err("sqlx")}

\* db::count_games
count_games(table, outcome) ==
    IF outcome = "Ok" THEN Ok(Cardinality(table)) ELSE Err("sqlx")

\* db::count_by_platform and db::count_by_status: one pair per group
count_by(table, column, outcome) ==
    IF outcome = "Ok"
    THEN Ok({<<v, Cardinality({r \in table : r[column] = v})>> :
                v \in {r[column] : r \in table}})
    ELSE Err("sqlx")

RECURSIVE SumPlaytime(_)
SumPlaytime(table) ==
    IF table = {} THEN 0
    ELSE LET r == CHOOSE q \in table : TRUE
         IN  r.playtime_hours + SumPlaytime(table \ {r})

\* SUM over a column: NULL when there is no row
Sum(table) == IF table = {} THEN None ELSE Some(SumPlaytime(table))

\* COALESCE(value, default)
Coalesce(value, default) == IF value = None THEN default ELSE Unwrap(value)

\* Variant: SUM(playtime_hours) is selected as it is; a NULL total does not
\* decode as f64
total_playtime_Uncoalesced(table, outcome) ==
    IF outcome = "Ok" /\ Sum(table) # None THEN Ok(Unwrap(Sum(table))) ELSE Err("sqlx")

\* db::total_playtime: COALESCE(SUM(playtime_hours), 0.0)
total_playtime(table, outcome) ==
    IF outcome = "Ok" THEN Ok(Coalesce(Sum(table), 0)) ELSE Err("sqlx")

\* The four reads of the stats, in the order both stats paths make them
StatsReads(table, env) ==
    << <<"count_games", count_games(table, env.count)>>,
       <<"count_by_platform", count_by(table, "platform", env.platform)>>,
       <<"count_by_status", count_by(table, "status", env.status)>>,
       <<"total_playtime", total_playtime(table, env.playtime)>> >>

GameStats(total_games, by_platform, by_status, playtime) ==
    [total_games |-> total_games, by_platform |-> by_platform,
     by_status |-> by_status, total_playtime |-> playtime]

\* service.rs GameService::get_stats: each read is followed by `?`
get_stats(table, env) ==
    LET reads == StatsReads(table, env)
        failed == {i \in 1..4 : IsErr(reads[i][2])}
        last == IF failed = {} THEN 4 ELSE CHOOSE i \in failed : \A j \in failed : i <= j
    IN  [calls |-> [i \in 1..last |-> <<reads[i][1], reads[i][2][1]>>],
         result |-> IF failed = {}
                    THEN Ok(GameStats(reads[1][2][2], reads[2][2][2],
                                      reads[3][2][2], reads[4][2][2]))
                    ELSE Err("sqlx")]

----------------------------------------------------------------------------
(* db.rs: search_games.  The statement is run by SQLite: LIKE folds the ASCII  *)
(* letters, `%` in a pattern stands for any run of characters and `_` for any   *)
(* one character; a NULL operand makes LIKE NULL, which WHERE treats as false;  *)
(* ORDER BY title compares bytes.                                               *)

\* `pattern` LIKE-matches the whole of `str`
RECURSIVE Like(_, _)
Like(pattern, str) ==
    IF pattern = <<>> THEN str = <<>>
    ELSE IF Head(pattern) = "%"
         THEN Like(Tail(pattern), str) \/ (str # <<>> /\ Like(pattern, Tail(str)))
    ELSE /\ str # <<>>
         /\ \/ Head(pattern) = "_"
            \/ ToLowercase(<<Head(pattern)>>) = ToLowercase(<<Head(str)>>)
         /\ Like(Tail(pattern), Tail(str))

\* The characters of the model in byte order
ByteOrder ==
    <<" ", "%", ".", "/">> \o DigitChars \o UpperChars \o <<"_">> \o LowerChars

ByteOf(c) == CHOOSE i \in 1..Len(ByteOrder) : ByteOrder[i] = c

\* a <= b under the BINARY collation
RECURSIVE BinaryLeq(_, _)
BinaryLeq(a, b) ==
    IF a = <<>> THEN TRUE
    ELSE IF b = <<>> THEN FALSE
    ELSE IF Head(a) = Head(b) THEN BinaryLeq(Tail(a), Tail(b))
    ELSE ByteOf(Head(a)) < ByteOf(Head(b))

\* The orders in which `ORDER BY title` can return the rows
ByTitle(rows) ==
    {l \in [1..Cardinality(rows) -> rows] :
        /\ \A i, j \in 1..Cardinality(rows) : i # j => l[i] # l[j]
        /\ \A i, j \in 1..Cardinality(rows) : i < j => BinaryLeq(l[i].title, l[j].title)}

\* Variant: only the title is searched
search_games_TitleOnly(table, query, outcome) ==
    LET pattern == <<"%">> \o query \o <<"%">>
        rows == {r \in table : Like(pattern, r.title)}
    IN  IF outcome = "Ok" THEN {Ok(l) : l \in ByTitle(rows)} ELSE {Err("sqlx")}

\* db::search_games; the set of results the store can give
search_games(table, query, outcome) ==
    LET pattern == <<"%">> \o query \o <<"%">>
        rows == {r \in table :
                    \/ Like(pattern, r.title)
                    \/ IsSome(r.genre) /\ Like(pattern, Unwrap(r.genre))}
    IN  IF outcome = "Ok" THEN {Ok(l) : l \in ByTitle(rows)} ELSE {Err("sqlx")}

----------------------------------------------------------------------------
(* src/handlers.rs: the route handlers of the direct-server variant; each     *)
(* returns a rendered page                                                    *)

Html(body) == [html |-> body]

\* The directory the route handlers write icons to ("static/icons")
StaticIcons == <<"s">>

\* handlers::create_game: assemble as the service does, with the icon files
\* under static/icons, then insert, list, render
handlers_create_game(table, t, os, form, env) ==
    LET as_service == ExeIconFallback(
                  EnrichFromRawg([game |-> BaseGame(form), calls |-> <<>>], form, env),
                  form, os, env)
        icon == as_service.game.icon_path
        st == [as_service EXCEPT !.game.icon_path =
                  IF IsSome(icon)
                  THEN Some(StaticIcons \o SubSeq(Unwrap(icon), Len(IconsDir) + 1,
                                                  Len(Unwrap(icon))))
                  ELSE None]
        ins == insert_game(table, st.game, t, env.insert)
    IN  {[games |-> ins.games,
          calls |-> st.calls \o << <<"insert_game", ins.result[1]>>,
                                   <<"get_all_games", listed[1]>> >>,
          result |-> Ok(Html(IF IsOk(listed) THEN listed[2] ELSE <<>>))] :
            listed \in get_all_games(ins.games, env.list)}

\* handlers::delete_game_handler
handlers_delete_game(table, id, outcome) ==
    [games |-> delete_game(table, id, outcome).games,
     calls |-> << <<"delete_game", delete_game(table, id, outcome).result[1]>> >>,
     result |-> Ok(Html(<<>>))]

\* handlers::stats: every read is followed by unwrap_or / unwrap_or_default
handlers_stats(table, env) ==
    LET reads == StatsReads(table, env)
    IN  [calls |-> [i \in 1..4 |-> <<reads[i][1], reads[i][2][1]>>],
         result |-> Ok(Html(GameStats(
                        IF IsOk(reads[1][2]) THEN reads[1][2][2] ELSE 0,
                        IF IsOk(reads[2][2]) THEN reads[2][2][2] ELSE {},
                        IF IsOk(reads[3][2]) THEN reads[3][2][2] ELSE {},
                        IF IsOk(reads[4][2]) THEN reads[4][2][2] ELSE 0)))]

----------------------------------------------------------------------------
(* indexers/epic.rs.  A directory is [kind, read_dir]: kind is "dir", "file"   *)
(* or "missing", read_dir the result of listing it, a sequence of entry        *)
(* results.  An entry is [name, read]: read is the result of read_to_string,   *)
(* and the text read is [json]: the manifest object it holds, if it is one.    *)

\* The JSON object of a manifest: every member may be missing
ManifestJson(display_name, install_location, launch_executable, app_name, flag) ==
    [DisplayName |-> display_name, InstallLocation |-> install_location,
     LaunchExecutable |-> launch_executable, AppName |-> app_name,
     bIsApplication |-> flag]

\* Variant: a manifest without the flag is taken for an application
EpicManifest_DefaultsTrue(json) ==
    [display_name |-> json.DisplayName, install_location |-> json.InstallLocation,
     launch_executable |-> json.LaunchExecutable, app_name |-> json.AppName,
     b_is_application |-> IF IsSome(json.bIsApplication)
                          THEN Unwrap(json.bIsApplication) ELSE TRUE]

\* struct EpicManifest as serde fills it: #[serde(default)] on the flag
EpicManifest(json) ==
    [display_name |-> json.DisplayName, install_location |-> json.InstallLocation,
     launch_executable |-> json.LaunchExecutable, app_name |-> json.AppName,
     b_is_application |-> IF IsSome(json.bIsApplication)
                          THEN Unwrap(json.bIsApplication) ELSE FALSE]

\* Variant: the executable path is built without looking at the disk
EpicExePath_Unchecked(manifest, exists) ==
    IF IsSome(manifest.install_location) /\ IsSome(manifest.launch_executable)
    THEN Some(PathJoin(Unwrap(manifest.install_location),
                       Unwrap(manifest.launch_executable)))
    ELSE None

\* `let exe_path = match (&manifest.install_location, &manifest.launch_executable)`
EpicExePath(manifest, exists) ==
    IF IsSome(manifest.install_location) /\ IsSome(manifest.launch_executable)
    THEN LET full == PathJoin(Unwrap(manifest.install_location),
                              Unwrap(manifest.launch_executable))
         IN  IF full \in exists THEN Some(full) ELSE None
    ELSE None

\* parse_manifest: Err, Ok(None) or Ok(Some(record))
parse_manifest(file, exists) ==
    IF IsErr(file.read) THEN Err("io")
    ELSE IF file.read[2].json = None THEN Err("serde_json")
    ELSE LET manifest == EpicManifest(Unwrap(file.read[2].json))
         IN  IF ~manifest.b_is_application THEN Ok(None)
             ELSE IF ~(IsSome(manifest.display_name)
                          /\ Unwrap(manifest.display_name) # <<>>) THEN Ok(None)
             ELSE IF ~(IsSome(manifest.app_name)
                          /\ Unwrap(manifest.app_name) # "") THEN Ok(None)
             ELSE Ok(Some(DiscoveredGame(Unwrap(manifest.display_name),
                                         EpicExePath(manifest, exists),
                                         manifest.install_location,
                                         "epic", Unwrap(manifest.app_name))))

\* Variant: the error of a manifest is propagated (`parse_manifest(&path)?`)
RECURSIVE ScanManifests_Propagates(_, _, _)
ScanManifests_Propagates(entries, found, exists) ==
    IF entries = <<>> THEN Ok(found)
    ELSE IF IsErr(Head(entries)) THEN Err("io")
    ELSE LET entry == Head(entries)[2]
             parsed == parse_manifest(entry, exists)
         IN  IF Extension(entry.name) # Some(<<"i", "t", "e", "m">>)
             THEN ScanManifests_Propagates(Tail(entries), found, exists)
             ELSE IF IsErr(parsed) THEN parsed
             ELSE ScanManifests_Propagates(
                      Tail(entries),
                      IF IsSome(parsed[2]) THEN Append(found, Unwrap(parsed[2])) ELSE found,
                      exists)

\* The loop `for entry in std::fs::read_dir(manifests_dir)?`
RECURSIVE ScanManifests(_, _, _)
ScanManifests(entries, found, exists) ==
    IF entries = <<>> THEN Ok(found)
    ELSE IF IsErr(Head(entries)) THEN Err("io")
    ELSE LET entry == Head(entries)[2]
             parsed == parse_manifest(entry, exists)
         IN  IF Extension(entry.name) # Some(<<"i", "t", "e", "m">>)
             THEN ScanManifests(Tail(entries), found, exists)
             ELSE ScanManifests(
                      Tail(entries),
                      IF IsOk(parsed) /\ IsSome(parsed[2])
                      THEN Append(found, Unwrap(parsed[2])) ELSE found,
                      exists)

\* Variant: the directory is listed without the is_dir test
scan_epic_games_from_ListsAnyway(manifests_dir, exists) ==
    IF IsErr(manifests_dir.read_dir) THEN Err("io")
    ELSE ScanManifests(manifests_dir.read_dir[2], <<>>, exists)

\* scan_epic_games_from
scan_epic_games_from(manifests_dir, exists) ==
    IF manifests_dir.kind # "dir" THEN Ok(<<>>)
    ELSE IF IsErr(manifests_dir.read_dir) THEN Err("io")
    ELSE ScanManifests(manifests_dir.read_dir[2], <<>>, exists)

----------------------------------------------------------------------------
(* indexers/steam.rs: find_main_exe.  The install directory is [kind, path,    *)
(* read_dir]; an entry of its listing is [name].                               *)

\* The substrings of a lowercased file name that mark a non-game executable
ExcludedNames ==
    {<<"u", "n", "i", "n", "s">>,
     <<"r", "e", "d", "i", "s", "t">>,
     <<"s", "e", "t", "u", "p">>,
     <<"c", "r", "a", "s", "h">>,
     <<"u", "e", "4", "p", "r", "e", "r", "e", "q">>,
     <<"d", "x", "s", "e", "t", "u", "p">>}

\* Variant: an excluded executable ends the search (`return None` for `continue`)
RECURSIVE FindExe_StopsAtExcluded(_, _)
FindExe_StopsAtExcluded(entries, install_path) ==
    IF entries = <<>> THEN None
    ELSE IF IsErr(Head(entries)) THEN FindExe_StopsAtExcluded(Tail(entries), install_path)
    ELSE LET file_name == Head(entries)[2].name
             name == ToLowercase(file_name)
         IN  IF Extension(file_name) # Some(<<"e", "x", "e">>)
             THEN FindExe_StopsAtExcluded(Tail(entries), install_path)
             ELSE IF \E pat \in ExcludedNames : Contains(name, pat)
             THEN None
             ELSE Some(PathJoin(install_path, file_name))

\* The loop of find_main_exe over `entries.flatten()`: an entry that failed to
\* read is dropped; the first kept entry is returned with its full path
RECURSIVE FindExe(_, _)
FindExe(entries, install_path) ==
    IF entries = <<>> THEN None
    ELSE IF IsErr(Head(entries)) THEN FindExe(Tail(entries), install_path)
    ELSE LET file_name == Head(entries)[2].name
             name == ToLowercase(file_name)
         IN  IF Extension(file_name) # Some(<<"e", "x", "e">>)
             THEN FindExe(Tail(entries), install_path)
             ELSE IF \E pat \in ExcludedNames : Contains(name, pat)
             THEN FindExe(Tail(entries), install_path)
             ELSE Some(PathJoin(install_path, file_name))

\* find_main_exe
find_main_exe(install_dir) ==
    IF install_dir.kind # "dir" THEN None
    ELSE IF IsErr(install_dir.read_dir) THEN None
    ELSE FindExe(install_dir.read_dir[2], install_dir.path)

----------------------------------------------------------------------------
(* service.rs: discovered_to_game *)

discovered_to_game(dg) ==
    [Game(dg.title, dg.platform, "Backlog",
          Some(dg.source), Some(dg.source_id), dg.install_path)
       EXCEPT !.exe_path = dg.exe_path]

----------------------------------------------------------------------------
(* Input domains *)

TitlePlain == <<"H", "L">>
TitleSpaced == <<"H", " ", "L">>
ExeFile == <<"g">>
InstallDir == <<"d">>

Outcomes == {"Ok", "Err"}

\* Catalog entries get_game_details can decode
CatalogEntries ==
    {RawgGame(12, Some("u"), <<[name |-> "RPG"], [name |-> "Action"]>>, Some("x")),
     RawgGame(12, None, <<>>, None)}

FetchResults == {Err("reqwest")} \cup {Ok(rg) : rg \in CatalogEntries}

CreateEnvs ==
    [fetch : FetchResults, download : Outcomes, exeico : Outcomes, insert : Outcomes]

\* Manual entries with every enrichment combination
EnrichInputs ==
    {CreateGameInput(TitleSpaced, "PC", "Playing", rawg_id, exe_path, None, None, None) :
        rawg_id \in {None, Some(12)},
        exe_path \in {None, Some(<<>>), Some(ExeFile)}}

\* Entries that carry a launcher key, enriched with a genre
KeyedInputs ==
    {CreateGameInput(TitlePlain, "PC", "Playing", Some(12), None,
                     key[1], key[2], None) :
        key \in {<<None, None>>, <<Some("steam"), None>>, <<Some("steam"), Some("42")>>}}

KeyedEnvs ==
    [fetch : {Ok(RawgGame(12, None, <<[name |-> "RPG"]>>, None))},
     download : {"Ok"}, exeico : {"Ok"}, insert : Outcomes]

\* What a scan can find: the same Steam app under two titles, and an Epic app
SteamRetitled ==
    {DiscoveredGame(TitlePlain, None, None, "steam", "42"),
     DiscoveredGame(TitleSpaced, Some(ExeFile), Some(InstallDir), "steam", "42")}

SteamFound ==
    {DiscoveredGame(TitlePlain, None, Some(InstallDir), "steam", "42"),
     DiscoveredGame(TitleSpaced, Some(ExeFile), Some(InstallDir), "steam", "43")}

EpicFound ==
    {DiscoveredGame(TitlePlain, Some(ExeFile), Some(InstallDir), "epic", "e1")}

\* The store's answers to the two statements of an upsert
UpsertEnvs ==
    {[select |-> "Ok", write |-> "Ok"], [select |-> "Err", write |-> "Ok"],
     [select |-> "Ok", write |-> "Err"]}

Statuses == {"Completed"}

\* A manual entry with nothing to enrich, stored by a working store
PlainInputs == {CreateGameInput(TitlePlain, "PC", "Playing", None, None, None, None, None)}

PlainEnvs ==
    [fetch : {Err("reqwest")}, download : {"Ok"}, exeico : {"Ok"}, insert : {"Ok"}]

\* The store's answers to the four reads of the stats: at most one read fails
StatsEnvs ==
    {env \in [count : Outcomes, platform : Outcomes, status : Outcomes, playtime : Outcomes] :
        Cardinality({f \in {"count", "platform", "status", "playtime"} : env[f] = "Err"}) <= 1}

\* The store's answers to the insert and the listing of POST /games
FormEnvs ==
    [fetch : {Err("reqwest")}, download : {"Ok"}, exeico : {"Ok"},
     insert : Outcomes, list : Outcomes]

\* Manual entries under three titles, with and without a catalog match
SearchInputs ==
    {CreateGameInput(title, "PC", "Playing", rawg_id, None, None, None, None) :
        title \in {TitlePlain, <<"h", "a">>, <<"x">>},
        rawg_id \in {None, Some(12)}}

\* A working catalog and store; the catalog entry has one genre
SearchEnvs ==
    [fetch : {Ok(RawgGame(12, None, <<[name |-> <<"R", "h">>]>>, None))},
     download : {"Ok"}, exeico : {"Ok"}, insert : {"Ok"}]

\* Search texts: plain ones, the empty one, and ones holding `_` or `%`
Queries ==
    {<<>>, <<"h">>, <<"L">>, <<"r">>, <<"a">>, <<"R", "h">>, <<"z">>,
     <<"_">>, <<"%">>, <<"h", "_">>, <<"H", "%", "L">>}

\* Statuses a row is moved between when its stamps are observed
StatusChoices == {"Completed", "Dropped"}

\* Sequences over S of length at most n
RECURSIVE SeqsUpTo(_, _)
SeqsUpTo(S, n) ==
    IF n = 0 THEN {<<>>}
    ELSE LET shorter == SeqsUpTo(S, n - 1)
         IN  shorter \cup {Append(q, x) : q \in shorter, x \in S}

ScanResults(S) == {Err("scan")} \cup {Ok(list) : list \in SeqsUpTo(S, MaxScan)}

Procs == {1, 2}

\* Sequences over S of length at most n without a repeated element
Listings(S, n) ==
    {l \in SeqsUpTo(S, n) : \A i, j \in 1..Len(l) : i # j => l[i] # l[j]}

\* A directory entry with its name and what reading it gives
DirEntry(name, read) == Ok([name |-> name, read |-> read])

ItemName(c) == <<c, ".", "i", "t", "e", "m">>

\* The path of the launch executable of the manifests below
LaunchPath == <<"d", "/", "g">>

\* Entries of a manifests directory: accepted manifests (a, b, k), manifests
\* that are not applications (c, d), manifests without a display name (e, f) or
\* an app name (m, n), a malformed and an unreadable one (x, y), a manifest
\* under another extension, and an entry that cannot be read from the directory
EpicEntries ==
    {DirEntry(ItemName("a"), Ok([json |-> Some(ManifestJson(
         Some(TitlePlain), Some(InstallDir), Some(ExeFile), Some("e1"), Some(TRUE)))])),
     DirEntry(ItemName("b"), Ok([json |-> Some(ManifestJson(
         Some(TitleSpaced), Some(InstallDir), None, Some("e2"), Some(TRUE)))])),
     DirEntry(ItemName("k"), Ok([json |-> Some(ManifestJson(
         Some(TitlePlain), None, Some(ExeFile), Some("e3"), Some(TRUE)))])),
     DirEntry(ItemName("c"), Ok([json |-> Some(ManifestJson(
         Some(TitlePlain), Some(InstallDir), Some(ExeFile), Some("e4"), Some(FALSE)))])),
     DirEntry(ItemName("d"), Ok([json |-> Some(ManifestJson(
         Some(TitlePlain), Some(InstallDir), Some(ExeFile), Some("e5"), None))])),
     DirEntry(ItemName("e"), Ok([json |-> Some(ManifestJson(
         None, Some(InstallDir), Some(ExeFile), Some("e6"), Some(TRUE)))])),
     DirEntry(ItemName("f"), Ok([json |-> Some(ManifestJson(
         Some(<<>>), Some(InstallDir), Some(ExeFile), Some("e7"), Some(TRUE)))])),
     DirEntry(ItemName("m"), Ok([json |-> Some(ManifestJson(
         Some(TitlePlain), Some(InstallDir), Some(ExeFile), None, Some(TRUE)))])),
     DirEntry(ItemName("n"), Ok([json |-> Some(ManifestJson(
         Some(TitlePlain), Some(InstallDir), Some(ExeFile), Some(""), Some(TRUE)))])),
     DirEntry(ItemName("x"), Ok([json |-> None])),
     DirEntry(ItemName("y"), Err("io")),
     DirEntry(<<"t", ".", "t", "x", "t">>, Ok([json |-> Some(ManifestJson(
         Some(TitlePlain), Some(InstallDir), Some(ExeFile), Some("e8"), Some(TRUE)))])),
     Err("io")}

\* The paths scan_epic_games_from can be given
EpicDirs ==
    {[kind |-> k, read_dir |-> Err("io")] : k \in {"missing", "file", "dir"}}
    \cup {[kind |-> "dir", read_dir |-> Ok(l)] : l \in Listings(EpicEntries, MaxEntries)}

\* What is on disk under the install location
DiskStates == {{}, {LaunchPath}}

\* An entry of the install directory of a Steam app
FileEntry(name) == Ok([name |-> name])

ExeName(stem) == stem \o <<".", "e", "x", "e">>

\* Entries of an install directory: two game executables, one executable for
\* each excluded substring (one of them in capitals), an executable under an
\* upper-case extension, a file that is no executable, a name without an
\* extension, and an entry that cannot be read from the directory
SteamEntries ==
    {FileEntry(ExeName(<<"g">>)),
     FileEntry(ExeName(<<"h">>)),
     FileEntry(ExeName(<<"S", "e", "t", "u", "p">>)),
     FileEntry(ExeName(<<"u", "n", "i", "n", "s", "0">>)),
     FileEntry(ExeName(<<"v", "c", "r", "e", "d", "i", "s", "t">>)),
     FileEntry(ExeName(<<"C", "R", "A", "S", "H">>)),
     FileEntry(ExeName(<<"u", "e", "4", "p", "r", "e", "r", "e", "q">>)),
     FileEntry(ExeName(<<"d", "x", "s", "e", "t", "u", "p">>)),
     FileEntry(<<"g", ".", "E", "X", "E">>),
     FileEntry(<<"g", ".", "t", "x", "t">>),
     FileEntry(<<"e", "x", "e">>),
     Err("io")}

InstallDirs ==
    {[kind |-> k, path |-> InstallDir, read_dir |-> Err("io")] : k \in {"missing", "file", "dir"}}
    \cup {[kind |-> "dir", path |-> InstallDir, read_dir |-> Ok(l)] :
             l \in Listings(SteamEntries, MaxEntries)}

\* Desktop commands the frontend has in flight
Tasks == {1, 2}

\* A Steam library with one app
SteamOne == {DiscoveredGame(TitlePlain, None, Some(InstallDir), "steam", "42")}

\* Invocations of the create_game and index_now commands
CommandCalls ==
    {[cmd |-> "create_game", at |-> "lock", k |-> 0, input |-> input, env |-> env] :
        input \in {CreateGameInput(TitleSpaced, "PC", "Playing", rawg_id, Some(ExeFile),
                                   None, None, None) : rawg_id \in {None, Some(12)}},
        env \in [fetch : {Ok(RawgGame(12, Some("u"), <<>>, None))},
                 download : {"Err"}, exeico : {"Ok"}, insert : {"Ok"}]}
    \cup {[cmd |-> "index_now", at |-> "lock"]}

\* Invocations of index_now and of a create_game without a launcher key
GuardedCalls ==
    {[cmd |-> "create_game", at |-> "lock", k |-> 0,
      input |-> CreateGameInput(TitleSpaced, "PC", "Playing", None, Some(ExeFile),
                                None, None, None),
      env |-> [fetch |-> Err("reqwest"), download |-> "Ok", exeico |-> "Ok",
               insert |-> "Ok"]],
     [cmd |-> "index_now", at |-> "lock"]}

\* What a launcher scan of a desktop pass returns: a failure or one record
OneScan(S) == {Err("scan")} \cup {Ok(<<dg>>) : dg \in S}

Ids == 1..(MaxRows + 1)

----------------------------------------------------------------------------
(* Initial state: an empty, migrated table; no call in progress *)

NoTask == [cmd |-> "none", at |-> "idle"]

NoPass ==
    [at |-> "idle", queue |-> <<>>, total_discovered |-> 0, total_new |-> 0,
     scans |-> <<>>, calls |-> <<>>]

\* No launcher is installed
NoDisk ==
    [manifests_dir |-> [kind |-> "missing", read_dir |-> Err("io")],
     install_dir |-> [kind |-> "missing", path |-> InstallDir, read_dir |-> Err("io")],
     exists |-> {}]

\* The desktop shell once its state is registered
Registered == [setup |-> "returned", init |-> "done", managed |-> TRUE]

\* The desktop shell when `run` calls the setup hook
Starting == [setup |-> "running", init |-> "unspawned", managed |-> FALSE]

InitLibrary ==
    /\ games = {}
    /\ now = 0
    /\ target_os \in {"windows", "linux"}
    /\ ret = [op |-> "init"]
    /\ pass = NoPass
    /\ pc = [p \in Procs |-> "idle"]
    /\ frame = [p \in Procs |-> [game |-> None, existing |-> None, result |-> None]]
    /\ mutex = None
    /\ task = [t \in Tasks |-> NoTask]

Init == InitLibrary /\ disk = NoDisk /\ app = Registered

\* The desktop shell at its start
InitBoot == InitLibrary /\ disk = NoDisk /\ app = Starting

\* A machine with any content of the launcher directories
InitScan ==
    /\ InitLibrary
    /\ \/ disk \in [manifests_dir : EpicDirs, install_dir : {NoDisk.install_dir},
                      exists : DiskStates]
       \/ disk \in [manifests_dir : {NoDisk.manifests_dir}, install_dir : InstallDirs,
                      exists : {{}}]
    /\ app = Registered

----------------------------------------------------------------------------
(* Operations that run to completion *)

Tick ==
    /\ now < MaxClock
    /\ now' = now + 1
    /\ UNCHANGED <<games, target_os, ret, pass, pc, frame>>

CreateGame(input, env) ==
    /\ LET r == create_game(games, now, target_os, input, env)
       IN  /\ games' = r.games
           /\ ret' = [op |-> "create_game", input |-> input, built |-> r.built,
                      calls |-> r.calls, result |-> r.result]
    /\ UNCHANGED <<now, target_os, pass, pc, frame>>

UpsertGameBySource(dg, env) ==
    /\ \E r \in upsert_game_by_source(games, discovered_to_game(dg), now, env) :
           /\ games' = r.games
           /\ ret' = [op |-> "upsert_game_by_source",
                      game |-> discovered_to_game(dg), existing |-> r.existing,
                      result |-> r.result]
    /\ UNCHANGED <<now, target_os, pass, pc, frame>>

UpdateGameStatus(id, status, outcome) ==
    /\ LET r == update_game_status(games, id, status, now, outcome)
       IN  /\ games' = r.games
           /\ ret' = [op |-> "update_game_status", id |-> id,
                      status |-> status, result |-> r.result]
    /\ UNCHANGED <<now, target_os, pass, pc, frame>>

DeleteGame(id, outcome) ==
    /\ pass.at = "idle"
    /\ LET r == delete_game(games, id, outcome)
       IN  /\ games' = r.games
           /\ ret' = [op |-> "delete_game", id |-> id, result |-> r.result]
    /\ UNCHANGED <<now, target_os, pass, pc, frame>>

\* GameService::list_games
ListGames(outcome) ==
    /\ \E listed \in get_all_games(games, outcome) :
           ret' = [op |-> "list_games",
                   calls |-> << <<"get_all_games", listed[1]>> >>,
                   result |-> listed]
    /\ UNCHANGED <<games, now, target_os, pass, pc, frame>>

\* GameService::get_stats
GetStats(env) ==
    /\ ret' = [op |-> "get_stats", env |-> env, calls |-> get_stats(games, env).calls,
               result |-> get_stats(games, env).result]
    /\ UNCHANGED <<games, now, target_os, pass, pc, frame>>

\* POST /games
HandlerCreateGame(form, env) ==
    /\ \E r \in handlers_create_game(games, now, target_os, form, env) :
           /\ games' = r.games
           /\ ret' = [op |-> "handlers::create_game", input |-> form,
                      calls |-> r.calls, result |-> r.result]
    /\ UNCHANGED <<now, target_os, pass, pc, frame>>

\* DELETE /games/:id
HandlerDeleteGame(id, outcome) ==
    /\ LET r == handlers_delete_game(games, id, outcome)
       IN  /\ games' = r.games
           /\ ret' = [op |-> "handlers::delete_game_handler", id |-> id,
                      calls |-> r.calls, result |-> r.result]
    /\ UNCHANGED <<now, target_os, pass, pc, frame>>

\* GET /stats
HandlerStats(env) ==
    /\ ret' = [op |-> "handlers::stats", calls |-> handlers_stats(games, env).calls,
               result |-> handlers_stats(games, env).result]
    /\ UNCHANGED <<games, now, target_os, pass, pc, frame>>

\* indexers::epic::scan_epic_games_from
ScanEpicGamesFrom ==
    /\ ret' = [op |-> "scan_epic_games_from", manifests_dir |-> disk.manifests_dir,
               exists |-> disk.exists,
               result |-> scan_epic_games_from(disk.manifests_dir, disk.exists)]
    /\ UNCHANGED <<games, now, target_os, pass, pc, frame>>

FindMainExe ==
    /\ ret' = [op |-> "find_main_exe", install_dir |-> disk.install_dir,
               result |-> find_main_exe(disk.install_dir)]
    /\ UNCHANGED <<games, now, target_os, pass, pc, frame>>

\* GameService::search_games
SearchGames(query, outcome) ==
    /\ \E found \in search_games(games, query, outcome) :
           ret' = [op |-> "search_games", query |-> query,
                   calls |-> << <<"search_games", found[1]>> >>,
                   result |-> found]
    /\ UNCHANGED <<games, now, target_os, pass, pc, frame>>

GetGameById(id, outcome) ==
    /\ ret' = [op |-> "get_game_by_id", id |-> id,
               result |-> get_game_by_id(games, id, outcome)]
    /\ UNCHANGED <<games, now, target_os, pass, pc, frame>>

----------------------------------------------------------------------------
(* service.rs: GameService::index_all, one step per scan and per upsert *)

\* Variant: the scan error is propagated (`scan_steam_games()?`)
IndexScanSteam_Propagates(steam) ==
    /\ pass.at = "idle"
    /\ IF IsOk(steam)
       THEN /\ pass' = [at |-> "steam", queue |-> steam[2],
                        total_discovered |-> Len(steam[2]), total_new |-> 0,
                        scans |-> << <<"steam", "Ok", Len(steam[2])>> >>,
                        calls |-> <<>>]
            /\ ret' = [op |-> "index_all", result |-> None]
       ELSE /\ pass' = pass
            /\ ret' = [op |-> "index_all", scans |-> << <<"steam", "Err", 0>> >>,
                       calls |-> <<>>, result |-> Some(Err("scan"))]
    /\ UNCHANGED <<games, now, target_os, pc, frame>>

\* `match indexers::steam::scan_steam_games()`: Ok adds the length and queues the
\* records of the loop, Err only logs
IndexScanSteam(steam) ==
    /\ pass.at = "idle"
    /\ pass' = [at |-> "steam",
                queue |-> IF IsOk(steam) THEN steam[2] ELSE <<>>,
                total_discovered |-> IF IsOk(steam) THEN Len(steam[2]) ELSE 0,
                total_new |-> 0,
                scans |-> << <<"steam", steam[1], IF IsOk(steam) THEN Len(steam[2]) ELSE 0>> >>,
                calls |-> <<>>]
    /\ ret' = [op |-> "index_all", result |-> None]
    /\ UNCHANGED <<games, now, target_os, pc, frame>>

\* Variant: the counter is bumped before the result is matched
IndexUpsert_CountsFailures(env) ==
    /\ pass.at \in {"steam", "epic"}
    /\ pass.queue # <<>>
    /\ LET dg == Head(pass.queue)
       IN  \E r \in upsert_game_by_source(games, discovered_to_game(dg), now, env) :
               /\ games' = r.games
               /\ pass' = [pass EXCEPT
                             !.queue = Tail(@),
                             !.total_new = @ + 1,
                             !.calls = Append(@, <<dg.source, dg.source_id, r.result[1]>>)]
    /\ UNCHANGED <<now, target_os, ret, pc, frame>>

\* One iteration of `for dg in ..`: upsert, count a success, log a failure
IndexUpsert(env) ==
    /\ pass.at \in {"steam", "epic"}
    /\ pass.queue # <<>>
    /\ LET dg == Head(pass.queue)
       IN  \E r \in upsert_game_by_source(games, discovered_to_game(dg), now, env) :
               /\ games' = r.games
               /\ pass' = [pass EXCEPT
                             !.queue = Tail(@),
                             !.total_new = IF IsOk(r.result) THEN @ + 1 ELSE @,
                             !.calls = Append(@, <<dg.source, dg.source_id, r.result[1]>>)]
    /\ UNCHANGED <<now, target_os, ret, pc, frame>>

\* `match indexers::epic::scan_epic_games()`, reached when the Steam match is over
IndexScanEpic(epic) ==
    /\ pass.at = "steam"
    /\ pass.queue = <<>>
    /\ pass' = [pass EXCEPT
                  !.at = "epic",
                  !.queue = IF IsOk(epic) THEN epic[2] ELSE <<>>,
                  !.total_discovered = IF IsOk(epic) THEN @ + Len(epic[2]) ELSE @,
                  !.scans = Append(@, <<"epic", epic[1],
                                        IF IsOk(epic) THEN Len(epic[2]) ELSE 0>>)]
    /\ UNCHANGED <<games, now, target_os, ret, pc, frame>>

\* `Ok(IndexResult { discovered: total_discovered, upserted: total_new })`
IndexReturn ==
    /\ pass.at = "epic"
    /\ pass.queue = <<>>
    /\ ret' = [op |-> "index_all", scans |-> pass.scans, calls |-> pass.calls,
               result |-> Some(Ok([discovered |-> pass.total_discovered,
                                   upserted |-> pass.total_new]))]
    /\ pass' = NoPass
    /\ UNCHANGED <<games, now, target_os, pc, frame>>

----------------------------------------------------------------------------
(* db.rs: upsert_game_by_source called concurrently, one step per await *)

NoFrame == [game |-> None, existing |-> None, result |-> None]

\* The call is made with a discovery record
RaceCall(p, dg) ==
    /\ pc[p] = "idle"
    /\ pc' = [pc EXCEPT ![p] = "select"]
    /\ frame' = [frame EXCEPT ![p] = [NoFrame EXCEPT !.game = Some(discovered_to_game(dg))]]
    /\ UNCHANGED <<games, now, target_os, ret, pass>>

\* `let existing = sqlx::query_as(..).fetch_optional(pool).await?`
RaceSelect(p, outcome) ==
    /\ pc[p] = "select"
    /\ IF outcome = "Ok"
       THEN \E found \in SelectBySource(games, Unwrap(frame[p].game)) :
                /\ frame' = [frame EXCEPT ![p].existing = found]
                /\ pc' = [pc EXCEPT ![p] = "write"]
       ELSE /\ frame' = [frame EXCEPT ![p].result = Some(Err("sqlx"))]
            /\ pc' = [pc EXCEPT ![p] = "done"]
    /\ UNCHANGED <<games, now, target_os, ret, pass>>

\* The UPDATE or the insert_game, decided by the `existing` read earlier
RaceWrite(p, outcome) ==
    /\ pc[p] = "write"
    /\ LET w == WriteBySource(games, Unwrap(frame[p].game), frame[p].existing,
                              now, outcome)
       IN  /\ games' = w.games
           /\ frame' = [frame EXCEPT ![p].result = Some(w.result)]
    /\ pc' = [pc EXCEPT ![p] = "done"]
    /\ UNCHANGED <<now, target_os, ret, pass>>

\* The caller takes the result
RaceReturn(p) ==
    /\ pc[p] = "done"
    /\ pc' = [pc EXCEPT ![p] = "idle"]
    /\ frame' = [frame EXCEPT ![p] = NoFrame]
    /\ UNCHANGED <<games, now, target_os, ret, pass>>

----------------------------------------------------------------------------
(* src-tauri/src/commands.rs: each command takes the ServiceState mutex and   *)
(* then awaits the service call; the guard `svc` lives until the command      *)
(* returns.  A task's position `at` is the call it is suspended in.           *)

\* The calls a create_game call passes through, in order
CreatePoints(c) == create_game(games, now, target_os, c.input, c.env).calls

\* The frontend invokes a command; the handler reaches `service.lock().await`
CommandInvoke(t, call) ==
    /\ task[t].at = "idle"
    /\ task' = [task EXCEPT ![t] = call]
    /\ UNCHANGED <<games, now, target_os, ret, pass, pc, frame, mutex, disk, app>>

\* Variant: the lock is taken without waiting for its holder to drop it
CommandLock_NoWait(t) ==
    /\ task[t].at = "lock"
    /\ mutex' = Some(t)
    /\ task' = [task EXCEPT ![t] =
                  IF task[t].cmd = "create_game"
                  THEN [task[t] EXCEPT !.k = 1, !.at = CreatePoints(task[t])[1][1]]
                  ELSE [task[t] EXCEPT !.at = "index_all"]]
    /\ UNCHANGED <<games, now, target_os, ret, pass, pc, frame, disk, app>>

\* `let svc = service.lock().await;` is granted and the service call begins
CommandLock(t) ==
    /\ task[t].at = "lock"
    /\ mutex = None
    /\ mutex' = Some(t)
    /\ task' = [task EXCEPT ![t] =
                  IF task[t].cmd = "create_game"
                  THEN [task[t] EXCEPT !.k = 1, !.at = CreatePoints(task[t])[1][1]]
                  ELSE [task[t] EXCEPT !.at = "index_all"]]
    /\ UNCHANGED <<games, now, target_os, ret, pass, pc, frame, disk, app>>

\* create_game: the call the task was suspended in completes and the next begins
CommandCreateResume(t) ==
    /\ task[t].cmd = "create_game"
    /\ task[t].at \notin {"idle", "lock"}
    /\ task[t].k < Len(CreatePoints(task[t]))
    /\ task' = [task EXCEPT ![t] =
                  [task[t] EXCEPT !.k = task[t].k + 1,
                                  !.at = CreatePoints(task[t])[task[t].k + 1][1]]]
    /\ UNCHANGED <<games, now, target_os, ret, pass, pc, frame, mutex, disk, app>>

\* create_game: the insert completes, the command returns and `svc` is dropped
CommandCreateReturn(t) ==
    /\ task[t].cmd = "create_game"
    /\ task[t].at = "insert_game"
    /\ CreateGame(task[t].input, task[t].env)
    /\ mutex' = IF mutex = Some(t) THEN None ELSE mutex
    /\ task' = [task EXCEPT ![t] = NoTask]
    /\ UNCHANGED <<disk, app>>

\* index_now: the steps of index_all, taken by the task that is in it
CommandIndexScanSteam(t, steam) ==
    /\ task[t].cmd = "index_now" /\ task[t].at = "index_all"
    /\ IndexScanSteam(steam)
    /\ UNCHANGED <<mutex, task, disk, app>>

CommandIndexUpsert(t, env) ==
    /\ task[t].cmd = "index_now" /\ task[t].at = "index_all"
    /\ IndexUpsert(env)
    /\ UNCHANGED <<mutex, task, disk, app>>

CommandIndexScanEpic(t, epic) ==
    /\ task[t].cmd = "index_now" /\ task[t].at = "index_all"
    /\ IndexScanEpic(epic)
    /\ UNCHANGED <<mutex, task, disk, app>>

\* index_now: index_all returns, the command returns and `svc` is dropped
CommandIndexReturn(t) ==
    /\ task[t].cmd = "index_now" /\ task[t].at = "index_all"
    /\ IndexReturn
    /\ mutex' = IF mutex = Some(t) THEN None ELSE mutex
    /\ task' = [task EXCEPT ![t] = NoTask]
    /\ UNCHANGED <<disk, app>>

\* index_now, one step per await of the upsert_game_by_source of an iteration:
\* the call, the SELECT, the UPDATE or INSERT, and the match on the result
CommandIndexUpsertCall(t) ==
    /\ task[t].cmd = "index_now" /\ task[t].at = "index_all"
    /\ pass.at \in {"steam", "epic"}
    /\ pass.queue # <<>>
    /\ RaceCall(t, Head(pass.queue))
    /\ UNCHANGED <<mutex, task, disk, app>>

CommandIndexUpsertSelect(t, outcome) ==
    /\ task[t].cmd = "index_now" /\ task[t].at = "index_all"
    /\ RaceSelect(t, outcome)
    /\ UNCHANGED <<mutex, task, disk, app>>

CommandIndexUpsertWrite(t, outcome) ==
    /\ task[t].cmd = "index_now" /\ task[t].at = "index_all"
    /\ RaceWrite(t, outcome)
    /\ UNCHANGED <<mutex, task, disk, app>>

CommandIndexUpsertReturn(t) ==
    /\ task[t].cmd = "index_now" /\ task[t].at = "index_all"
    /\ pc[t] = "done"
    /\ pass.queue # <<>>
    /\ LET dg == Head(pass.queue)
           result == Unwrap(frame[t].result)
       IN  pass' = [pass EXCEPT
                      !.queue = Tail(@),
                      !.total_new = IF IsOk(result) THEN @ + 1 ELSE @,
                      !.calls = Append(@, <<dg.source, dg.source_id, result[1]>>)]
    /\ pc' = [pc EXCEPT ![t] = "idle"]
    /\ frame' = [frame EXCEPT ![t] = NoFrame]
    /\ UNCHANGED <<games, now, target_os, ret, mutex, task, disk, app>>

----------------------------------------------------------------------------
(* src-tauri/src/lib.rs: run.  The setup hook spawns a task on the async       *)
(* runtime and returns; the task connects, migrates, builds the service and    *)
(* registers it with handle.manage.  The frontend dispatches commands once the *)
(* setup hook has returned; a command whose State argument is not registered   *)
(* fails before its body runs.                                                  *)

\* `tauri::async_runtime::spawn(async move { .. })`
SetupSpawn ==
    /\ app.setup = "running"
    /\ app' = [app EXCEPT !.setup = "spawned", !.init = "connect"]
    /\ UNCHANGED <<games, now, target_os, ret, pass, pc, frame, mutex, task, disk>>

\* Variant: the hook waits for the spawned task (block_on) before it returns
SetupReturn_Awaits ==
    /\ app.setup = "spawned"
    /\ app.managed
    /\ app' = [app EXCEPT !.setup = "returned"]
    /\ UNCHANGED <<games, now, target_os, ret, pass, pc, frame, mutex, task, disk>>

\* `Ok(())` of the setup hook; the JoinHandle of the spawn is dropped
SetupReturn ==
    /\ app.setup = "spawned"
    /\ app' = [app EXCEPT !.setup = "returned"]
    /\ UNCHANGED <<games, now, target_os, ret, pass, pc, frame, mutex, task, disk>>

\* `SqlitePoolOptions::new().connect(&db_url).await.expect(..)`
InitConnect(outcome) ==
    /\ app.init = "connect"
    /\ app' = [app EXCEPT !.init = IF outcome = "Ok" THEN "migrate" ELSE "panicked"]
    /\ UNCHANGED <<games, now, target_os, ret, pass, pc, frame, mutex, task, disk>>

\* `sqlx::migrate!(..).run(&pool).await.expect(..)`
InitMigrate(outcome) ==
    /\ app.init = "migrate"
    /\ app' = [app EXCEPT !.init = IF outcome = "Ok" THEN "manage" ELSE "panicked"]
    /\ UNCHANGED <<games, now, target_os, ret, pass, pc, frame, mutex, task, disk>>

\* `GameService::new(..)`, `Arc::new(Mutex::new(service))`, `handle.manage(..)`
InitManage ==
    /\ app.init = "manage"
    /\ app' = [app EXCEPT !.init = "done", !.managed = TRUE]
    /\ UNCHANGED <<games, now, target_os, ret, pass, pc, frame, mutex, task, disk>>

\* The frontend invokes a command: with the state registered the handler runs
\* up to its lock, without it the invocation fails
Dispatch(t, call) ==
    /\ app.setup = "returned"
    /\ task[t].at = "idle"
    /\ IF app.managed
       THEN /\ task' = [task EXCEPT ![t] = call]
            /\ ret' = ret
       ELSE /\ task' = task
            /\ ret' = [op |-> "invoke", cmd |-> call.cmd, task |-> t, init |-> app.init,
                       result |-> Err("state not managed")]
    /\ UNCHANGED <<games, now, target_os, pass, pc, frame, mutex, disk, app>>

----------------------------------------------------------------------------
(* Specifications *)

\* The library under its direct operations
DoTick ==
    /\ Tick
    /\ UNCHANGED <<mutex, task, disk, app>>
DoCreateKeyed ==
    /\ \E input \in KeyedInputs, env \in KeyedEnvs : CreateGame(input, env)
    /\ Cardinality(games') <= MaxRows
    /\ UNCHANGED <<mutex, task, disk, app>>
DoUpsert ==
    /\ \E dg \in SteamRetitled, env \in UpsertEnvs : UpsertGameBySource(dg, env)
    /\ Cardinality(games') <= MaxRows
    /\ UNCHANGED <<mutex, task, disk, app>>
DoUpdateStatus ==
    /\ \E id \in Ids, status \in Statuses, outcome \in Outcomes :
           UpdateGameStatus(id, status, outcome)
    /\ UNCHANGED <<mutex, task, disk, app>>
DoDelete ==
    /\ \E id \in Ids, outcome \in Outcomes : DeleteGame(id, outcome)
    /\ UNCHANGED <<mutex, task, disk, app>>

Next == DoCreateKeyed \/ DoUpsert \/ DoUpdateStatus \/ DoDelete

Spec == Init /\ [][Next]_vars

\* create_game under every enrichment outcome
DoCreateEnriched ==
    /\ \E input \in EnrichInputs, env \in CreateEnvs : CreateGame(input, env)
    /\ Cardinality(games') <= MaxEnriched
    /\ UNCHANGED <<mutex, task, disk, app>>

NextCreate == DoCreateEnriched \/ DoDelete

SpecCreate == Init /\ [][NextCreate]_vars

\* Both create paths under every enrichment outcome
DoHandlerCreateEnriched ==
    /\ \E form \in EnrichInputs, env \in CreateEnvs :
           HandlerCreateGame(form, [fetch |-> env.fetch, download |-> env.download,
                                    exeico |-> env.exeico, insert |-> env.insert,
                                    list |-> "Ok"])
    /\ Cardinality(games') <= MaxEnriched
    /\ UNCHANGED <<mutex, task, disk, app>>

NextFallback == DoCreateEnriched \/ DoHandlerCreateEnriched

SpecFallback == Init /\ [][NextFallback]_vars

\* Two upsert_game_by_source calls on the shared pool, interleaved at their awaits
DoRaceCall ==
    /\ \E p \in Procs, dg \in SteamRetitled : RaceCall(p, dg)
    /\ UNCHANGED <<mutex, task, disk, app>>
DoRaceSelect ==
    /\ \E p \in Procs, outcome \in Outcomes : RaceSelect(p, outcome)
    /\ UNCHANGED <<mutex, task, disk, app>>
DoRaceWrite ==
    /\ \E p \in Procs, outcome \in Outcomes : RaceWrite(p, outcome)
    /\ Cardinality(games') <= MaxRows
    /\ UNCHANGED <<mutex, task, disk, app>>
DoRaceReturn ==
    /\ \E p \in Procs : RaceReturn(p)
    /\ UNCHANGED <<mutex, task, disk, app>>

NextRace == DoRaceCall \/ DoRaceSelect \/ DoRaceWrite \/ DoRaceReturn \/ DoTick

SpecRace == Init /\ [][NextRace]_vars

\* Re-index passes, one at a time
DoIndexScanSteam ==
    /\ \E steam \in ScanResults(SteamFound) : IndexScanSteam(steam)
    /\ UNCHANGED <<mutex, task, disk, app>>
DoIndexUpsert ==
    /\ \E env \in UpsertEnvs : IndexUpsert(env)
    /\ UNCHANGED <<mutex, task, disk, app>>
DoIndexScanEpic ==
    /\ \E epic \in ScanResults(EpicFound) : IndexScanEpic(epic)
    /\ UNCHANGED <<mutex, task, disk, app>>
DoIndexReturn ==
    /\ IndexReturn
    /\ UNCHANGED <<mutex, task, disk, app>>

NextIndex ==
    DoIndexScanSteam \/ DoIndexUpsert \/ DoIndexScanEpic \/ DoIndexReturn
        \/ DoDelete

SpecIndex == Init /\ [][NextIndex]_vars

\* Status updates, deletes and reads by id while the clock advances
DoCreatePlain ==
    /\ \E input \in PlainInputs, env \in PlainEnvs : CreateGame(input, env)
    /\ Cardinality(games') <= MaxRows
    /\ UNCHANGED <<mutex, task, disk, app>>
DoUpdateStatusAt ==
    /\ \E id \in Ids, status \in StatusChoices, outcome \in Outcomes :
           UpdateGameStatus(id, status, outcome)
    /\ UNCHANGED <<mutex, task, disk, app>>
DoGetGameById ==
    /\ \E id \in Ids, outcome \in Outcomes : GetGameById(id, outcome)
    /\ UNCHANGED <<mutex, task, disk, app>>

NextStatus == DoCreatePlain \/ DoUpdateStatusAt \/ DoDelete \/ DoGetGameById \/ DoTick

SpecStatus == Init /\ [][NextStatus]_vars

\* The direct CRUD and read paths, through the service and through the routes
DoListGames ==
    /\ \E outcome \in Outcomes : ListGames(outcome)
    /\ UNCHANGED <<mutex, task, disk, app>>
DoGetStats ==
    /\ \E env \in StatsEnvs : GetStats(env)
    /\ UNCHANGED <<mutex, task, disk, app>>
DoHandlerCreateGame ==
    /\ \E form \in PlainInputs, env \in FormEnvs : HandlerCreateGame(form, env)
    /\ Cardinality(games') <= MaxRows
    /\ UNCHANGED <<mutex, task, disk, app>>
DoHandlerDeleteGame ==
    /\ \E id \in Ids, outcome \in Outcomes : HandlerDeleteGame(id, outcome)
    /\ UNCHANGED <<mutex, task, disk, app>>
DoHandlerStats ==
    /\ \E env \in StatsEnvs : HandlerStats(env)
    /\ UNCHANGED <<mutex, task, disk, app>>

DoCreateStored ==
    /\ \E input \in PlainInputs, env \in KeyedEnvs : CreateGame(input, env)
    /\ Cardinality(games') <= MaxRows
    /\ UNCHANGED <<mutex, task, disk, app>>

NextPaths ==
    DoCreateStored \/ DoUpdateStatus \/ DoDelete \/ DoListGames \/ DoGetStats
        \/ DoHandlerCreateGame \/ DoHandlerDeleteGame \/ DoHandlerStats

SpecPaths == Init /\ [][NextPaths]_vars

\* Searches over a library of titled rows with and without a genre
DoCreateSearchable ==
    /\ \E input \in SearchInputs, env \in SearchEnvs : CreateGame(input, env)
    /\ Cardinality(games') <= MaxRows
    /\ UNCHANGED <<mutex, task, disk, app>>
DoSearchGames ==
    /\ \E query \in Queries, outcome \in Outcomes : SearchGames(query, outcome)
    /\ UNCHANGED <<mutex, task, disk, app>>

NextSearch == DoCreateSearchable \/ DoSearchGames

SpecSearch == Init /\ [][NextSearch]_vars

\* The launcher scanners over every directory content
DoScanEpicGamesFrom ==
    /\ ScanEpicGamesFrom
    /\ UNCHANGED <<mutex, task, disk, app>>

DoFindMainExe ==
    /\ FindMainExe
    /\ UNCHANGED <<mutex, task, disk, app>>

NextScan == DoScanEpicGamesFrom \/ DoFindMainExe

SpecScan == InitScan /\ [][NextScan]_vars

\* Desktop commands invoked concurrently by the frontend
DoCommandInvoke == \E t \in Tasks, call \in CommandCalls : CommandInvoke(t, call)
DoCommandLock == \E t \in Tasks : CommandLock(t)
DoCommandCreateResume == \E t \in Tasks : CommandCreateResume(t)
DoCommandCreateReturn ==
    /\ \E t \in Tasks : CommandCreateReturn(t)
    /\ Cardinality(games') <= MaxRows
DoCommandIndexScanSteam ==
    \E t \in Tasks, steam \in OneScan(SteamOne) : CommandIndexScanSteam(t, steam)
DoCommandIndexUpsert == \E t \in Tasks, env \in UpsertEnvs : CommandIndexUpsert(t, env)
DoCommandIndexScanEpic ==
    \E t \in Tasks, epic \in OneScan(EpicFound) : CommandIndexScanEpic(t, epic)
DoCommandIndexReturn == \E t \in Tasks : CommandIndexReturn(t)

NextDesktop ==
    DoCommandInvoke \/ DoCommandLock \/ DoCommandCreateResume \/ DoCommandCreateReturn
        \/ DoCommandIndexScanSteam \/ DoCommandIndexUpsert \/ DoCommandIndexScanEpic
        \/ DoCommandIndexReturn

SpecDesktop == Init /\ [][NextDesktop]_vars

\* The desktop shell from its start, with the commands of the frontend
DoSetupSpawn == SetupSpawn
DoSetupReturn == SetupReturn
DoInitConnect == \E outcome \in Outcomes : InitConnect(outcome)
DoInitMigrate == \E outcome \in Outcomes : InitMigrate(outcome)
DoInitManage == InitManage
DoDispatch == \E t \in Tasks, call \in GuardedCalls : Dispatch(t, call)

NextBoot ==
    DoSetupSpawn \/ DoSetupReturn \/ DoInitConnect \/ DoInitMigrate \/ DoInitManage
        \/ DoDispatch \/ DoCommandLock \/ DoCommandCreateResume
        \/ DoCommandCreateReturn \/ DoCommandIndexScanSteam \/ DoCommandIndexUpsert
        \/ DoCommandIndexScanEpic \/ DoCommandIndexReturn

SpecBoot == InitBoot /\ [][NextBoot]_vars

\* Desktop commands with every await of the re-index upserts as a step
DoCommandInvokeGuarded ==
    \E t \in Tasks, call \in GuardedCalls : CommandInvoke(t, call)
DoCommandIndexScanRetitled ==
    \E t \in Tasks, steam \in OneScan(SteamRetitled) : CommandIndexScanSteam(t, steam)
DoCommandIndexUpsertCall == \E t \in Tasks : CommandIndexUpsertCall(t)
DoCommandIndexUpsertSelect ==
    \E t \in Tasks, outcome \in Outcomes : CommandIndexUpsertSelect(t, outcome)
DoCommandIndexUpsertWrite ==
    /\ \E t \in Tasks, outcome \in Outcomes : CommandIndexUpsertWrite(t, outcome)
    /\ Cardinality(games') <= MaxRows
DoCommandIndexUpsertReturn == \E t \in Tasks : CommandIndexUpsertReturn(t)

NextGuarded ==
    DoCommandInvokeGuarded \/ DoCommandLock \/ DoCommandCreateResume
        \/ DoCommandCreateReturn \/ DoCommandIndexScanRetitled
        \/ DoCommandIndexUpsertCall \/ DoCommandIndexUpsertSelect
        \/ DoCommandIndexUpsertWrite \/ DoCommandIndexUpsertReturn
        \/ DoCommandIndexScanEpic \/ DoCommandIndexReturn

SpecGuarded == Init /\ [][NextGuarded]_vars

----------------------------------------------------------------------------
(* Properties *)

HasKey(r) == IsSome(r.source) /\ IsSome(r.source_id)
SameKey(r, g) == HasKey(g) /\ r.source = g.source /\ r.source_id = g.source_id
RowsWithKey(table, g) == {r \in table : SameKey(r, g)}

\* The step is a completed call of `op` (every operation overwrites ret)
Called(op) == ret'.op = op /\ <<games, ret>>' # <<games, ret>>

\* r2 agrees with r on every column a re-index must not touch
SameButIndexed(r, r2) ==
    /\ r2.id = r.id /\ r2.status = r.status /\ r2.platform = r.platform
    /\ r2.description = r.description /\ r2.genre = r.genre
    /\ r2.release_year = r.release_year /\ r2.icon_path = r.icon_path
    /\ r2.cover_url = r.cover_url /\ r2.rawg_id = r.rawg_id
    /\ r2.playtime_hours = r.playtime_hours /\ r2.rating = r.rating
    /\ r2.added_date = r.added_date /\ r2.last_played = r.last_played
    /\ r2.source = r.source /\ r2.source_id = r.source_id

\* C1: in every reachable state of the table no two rows carry the same
\* (source, source_id) pair when both fields are present.
C1_UniqueSourceKey ==
    \A r1, r2 \in games :
        (HasKey(r1) /\ r1.source = r2.source /\ r1.source_id = r2.source_id)
            => r1 = r2

C3_BothMissBothInsert ==
    (/\ \A p \in Procs : /\ pc[p] = "done"
                         /\ frame[p].existing = None
                         /\ IsSome(frame[p].result)
                         /\ IsOk(Unwrap(frame[p].result))
     /\ SameKey(Unwrap(frame[1].game), Unwrap(frame[2].game)))
    => /\ Cardinality(RowsWithKey(games, Unwrap(frame[1].game))) >= 2
       /\ Unwrap(frame[1].result)[2] # Unwrap(frame[2].result)[2]

\* C3 reached: both calls are done, neither found a row, and the key is
\* duplicated
C3_Witness ==
    /\ \A p \in Procs : /\ pc[p] = "done"
                        /\ frame[p].existing = None
                        /\ IsSome(frame[p].result)
                        /\ IsOk(Unwrap(frame[p].result))
    /\ SameKey(Unwrap(frame[1].game), Unwrap(frame[2].game))
    /\ Cardinality(RowsWithKey(games, Unwrap(frame[1].game))) = 2

\* C5: an upsert that finds a row of its key changes only that row's
\* install_path, exe_path and title; every other column of the row and every
\* other row stay as they were.
C5_ReindexFrame ==
    [][(/\ Called("upsert_game_by_source") /\ IsOk(ret'.result)
        /\ IsSome(ret'.existing))
       => LET id == Unwrap(ret'.existing).id
          IN  /\ \A r \in games : \E r2 \in games' :
                     /\ SameButIndexed(r, r2)
                     /\ (r.id # id => r2 = r)
                     /\ (r.id = id => /\ r2.title = ret'.game.title
                                      /\ r2.install_path = ret'.game.install_path
                                      /\ r2.exe_path = ret'.game.exe_path)
              /\ \A r2 \in games' : \E r \in games : r.id = r2.id]_vars

\* C5 reached: the upsert retitled an enriched, played row next to another row
C5_Witness ==
    /\ ret.op = "upsert_game_by_source" /\ IsOk(ret.result)
    /\ IsSome(ret.existing)
    /\ Cardinality(games) = 2
    /\ \E r \in games :
          /\ r.id = ret.result[2]
          /\ r.title = ret.game.title
          /\ Unwrap(ret.existing).title # ret.game.title
          /\ IsSome(r.genre) /\ IsSome(r.rawg_id)
          /\ r.status = "Completed" /\ IsSome(r.last_played)

\* Calls of `name` among the calls an operation made
CallsOf(calls, name) == {i \in 1..Len(calls) : calls[i][1] = name}
Made(calls, name, outcome) == \E i \in CallsOf(calls, name) : calls[i][2] = outcome

EndsWith(str, suffix) ==
    /\ Len(str) >= Len(suffix)
    /\ SubSeq(str, Len(str) - Len(suffix) + 1, Len(str)) = suffix

\* The row a successful create_game stored
StoredRow(id) == CHOOSE r \in games : r.id = id

\* C4: when the catalog lookup returned a cover URL and the cover download
\* failed, the created record has cover_url set and icon_path absent; the
\* catalog step sets icon_path only when the download succeeded.
C4_NoIconWhenDownloadFails ==
    (/\ ret.op = "create_game" /\ IsOk(ret.result)
     /\ Made(ret.calls, "download_icon", "Err"))
    => /\ IsSome(ret.result[2].cover_url)
       /\ ret.result[2].icon_path = None
       /\ StoredRow(ret.result[2].id).icon_path = None

\* C8: create_game returns an error exactly when its final insert fails,
\* whatever the enrichment calls returned; when the insert succeeds the result
\* carries the id of the one row that was added.
C8_CreateFailsOnlyOnInsert ==
    [][Called("create_game")
       => LET last == ret'.calls[Len(ret'.calls)]
          IN  /\ last[1] = "insert_game"
              /\ IsErr(ret'.result) <=> last[2] = "Err"
              /\ last[2] = "Ok" =>
                    /\ IsOk(ret'.result)
                    /\ Cardinality(games') = Cardinality(games) + 1
                    /\ games \subseteq games'
                    /\ \A r \in games' \ games :
                          /\ r.id = ret'.result[2].id
                          /\ r.id \notin {q.id : q \in games}
              /\ last[2] = "Err" => games' = games]_vars

\* C8 reached: the catalog fetch and the icon extraction failed and the create
\* succeeded
C8_Witness ==
    /\ ret.op = "create_game" /\ IsOk(ret.result)
    /\ Made(ret.calls, "get_game_details", "Err")
    /\ Made(ret.calls, "extract_exe_icon", "Err")
    /\ \E r \in games : r.id = ret.result[2].id /\ r.title = ret.input.title

\* C9: when the catalog fetch fails, the create fails only if the insert does,
\* and the created record carries no description, genre, cover_url or catalog id.
C9_FetchFailureLeavesNoEnrichment ==
    (/\ ret.op = "create_game"
     /\ Made(ret.calls, "get_game_details", "Err"))
    => /\ IsOk(ret.result) <=> Made(ret.calls, "insert_game", "Ok")
       /\ IsOk(ret.result) =>
             \A g \in {ret.result[2], StoredRow(ret.result[2].id)} :
                 /\ g.description = None /\ g.genre = None
                 /\ g.cover_url = None /\ g.rawg_id = None

\* C9 reached: a catalog id was supplied, its fetch failed, the row was created
C9_Witness ==
    /\ ret.op = "create_game" /\ IsOk(ret.result)
    /\ IsSome(ret.input.rawg_id)
    /\ Made(ret.calls, "get_game_details", "Err")
    /\ \E r \in games : r.id = ret.result[2].id /\ r.rawg_id = None

\* The title with every space turned into an underscore
Underscored(title) ==
    [i \in 1..Len(title) |-> IF title[i] = " " THEN "_" ELSE title[i]]

\* C10: icon extraction is attempted exactly when the catalog step set no icon
\* path and a non-empty executable path was supplied; a successful extraction
\* sets icon_path (the title with underscores for spaces, .ico) and exe_path, a
\* failed one leaves both absent.
C10_ExeIconFallback ==
    ret.op = "create_game"
    => LET g == ret.built
           catalogIcon == IsSome(g.icon_path) /\ EndsWith(Unwrap(g.icon_path), JpgExt)
           exeGiven == IsSome(ret.input.exe_path) /\ Unwrap(ret.input.exe_path) # <<>>
       IN  /\ CallsOf(ret.calls, "extract_exe_icon") # {} <=> (~catalogIcon /\ exeGiven)
           /\ Cardinality(CallsOf(ret.calls, "extract_exe_icon")) <= 1
           /\ Made(ret.calls, "extract_exe_icon", "Ok") =>
                 /\ g.icon_path =
                       Some(IconsDir \o <<"/">> \o Underscored(ret.input.title) \o IcoExt)
                 /\ g.exe_path = ret.input.exe_path
           /\ Made(ret.calls, "extract_exe_icon", "Err") =>
                 /\ g.icon_path = None
                 /\ g.exe_path = None
           /\ IsOk(ret.result) =>
                 \A q \in {ret.result[2], StoredRow(ret.result[2].id)} :
                     q.icon_path = g.icon_path /\ q.exe_path = g.exe_path

\* C10 reached: the icon of a title with a space was extracted and stored
C10_Witness ==
    /\ ret.op = "create_game" /\ IsOk(ret.result)
    /\ Made(ret.calls, "extract_exe_icon", "Ok")
    /\ ret.input.title = TitleSpaced
    /\ \E r \in games :
          /\ r.id = ret.result[2].id
          /\ r.icon_path = Some(<<"i", "/", "H", "_", "L", ".", "i", "c", "o">>)
          /\ r.exe_path = Some(ExeFile)

\* Upserts of `source` among the upserts of a pass, and the successful ones
UpsertsOf(calls, source) == {i \in 1..Len(calls) : calls[i][1] = source}
UpsertsOk(calls) == {i \in 1..Len(calls) : calls[i][3] = "Ok"}

\* C6: whatever the two scans return, a pass runs both, upserts every record of
\* each scan that succeeded, keeps what the Steam upserts wrote, and returns
\* success with its counts.
C6_ScanFailuresDoNotAbort ==
    (ret.op = "index_all" /\ IsSome(ret.result))
    => /\ IsOk(Unwrap(ret.result))
       /\ Len(ret.scans) = 2
       /\ ret.scans[1][1] = "steam" /\ ret.scans[2][1] = "epic"
       /\ \A k \in 1..2 :
             Cardinality(UpsertsOf(ret.calls, ret.scans[k][1])) =
                 IF ret.scans[k][2] = "Ok" THEN ret.scans[k][3] ELSE 0
       /\ \A i \in UpsertsOk(ret.calls) :
             \E r \in games : r.source = Some(ret.calls[i][1])
                              /\ r.source_id = Some(ret.calls[i][2])

\* C6 reached: the Steam scan failed and the Epic records were upserted
C6_Witness ==
    /\ ret.op = "index_all" /\ IsSome(ret.result)
    /\ IsOk(Unwrap(ret.result))
    /\ ret.scans[1] = <<"steam", "Err", 0>>
    /\ ret.scans[2][2] = "Ok"
    /\ \E i \in UpsertsOk(ret.calls) : ret.calls[i][1] = "epic"
    /\ \E r \in games : r.source = Some("epic")

\* C7: a pass returns discovered = the lengths of the successful scans added up
\* and upserted = the number of upserts that returned Ok; every discovered
\* record is attempted, so upserted <= discovered.
C7_IndexCounts ==
    (ret.op = "index_all" /\ IsSome(ret.result))
    => LET res == Unwrap(ret.result)[2]
       IN  /\ res.discovered = ret.scans[1][3] + ret.scans[2][3]
           /\ \A k \in 1..2 : ret.scans[k][2] = "Err" => ret.scans[k][3] = 0
           /\ res.upserted = Cardinality(UpsertsOk(ret.calls))
           /\ Len(ret.calls) = res.discovered
           /\ res.upserted <= res.discovered

\* C7 reached: a failed Steam upsert was followed by successful Steam and Epic
\* upserts
C7_Witness ==
    /\ ret.op = "index_all" /\ IsSome(ret.result)
    /\ Unwrap(ret.result)[2].upserted < Unwrap(ret.result)[2].discovered
    /\ \E i, j, k \in 1..Len(ret.calls) :
          /\ i < j /\ j < k
          /\ ret.calls[i][1] = "steam" /\ ret.calls[i][3] = "Err"
          /\ ret.calls[j][1] = "steam" /\ ret.calls[j][3] = "Ok"
          /\ ret.calls[k][1] = "epic" /\ ret.calls[k][3] = "Ok"

\* C11: create_game given no catalog id and no executable path makes no catalog
\* or asset call (the insert is its only call) and produces a record whose
\* icon_path and cover_url are absent and whose title, platform and status are
\* the supplied ones.
C11_PlainCreate ==
    (/\ ret.op = "create_game"
     /\ ret.input.rawg_id = None /\ ret.input.exe_path = None)
    => /\ Len(ret.calls) = 1 /\ ret.calls[1][1] = "insert_game"
       /\ \A g \in {ret.built} \cup
                    (IF IsOk(ret.result)
                     THEN {ret.result[2], StoredRow(ret.result[2].id)} ELSE {}) :
              /\ g.icon_path = None /\ g.cover_url = None
              /\ g.title = ret.input.title
              /\ g.platform = ret.input.platform
              /\ g.status = ret.input.status

\* C11 reached: a manual entry without catalog id or executable was stored
C11_Witness ==
    /\ ret.op = "create_game" /\ IsOk(ret.result)
    /\ ret.input.rawg_id = None /\ ret.input.exe_path = None
    /\ \E r \in games :
          /\ r.id = ret.result[2].id /\ r.status = "Playing"
          /\ r.title = TitleSpaced /\ r.icon_path = None

\* C12: update_game_status on an existing id sets that row's status to the
\* given value and its last_played to the current time, which is not earlier
\* than the last_played the row held; title, platform and every other column of
\* the row, and all other rows, are unchanged.
C12_StatusStampsLastPlayed ==
    [][(/\ Called("update_game_status") /\ IsOk(ret'.result)
        /\ \E r \in games : r.id = ret'.id)
       => LET r == CHOOSE q \in games : q.id = ret'.id
              r2 == CHOOSE q \in games' : q.id = ret'.id
          IN  /\ \E q \in games' : q.id = ret'.id
              /\ r2.status = ret'.status
              /\ r2.last_played = Some(<<now>>)
              /\ IsSome(r.last_played) => Unwrap(r.last_played)[1] <= Unwrap(r2.last_played)[1]
              /\ r2.title = r.title /\ r2.platform = r.platform
              /\ r2 = [r EXCEPT !.status = r2.status, !.last_played = r2.last_played]
              /\ games' \ {r2} = games \ {r}]_vars

\* C12 reached: a row added at time 0 carries the stamp of a later status
\* update, next to another row
C12_Witness ==
    /\ ret.op = "update_game_status" /\ IsOk(ret.result)
    /\ now > 0
    /\ \E r \in games :
          /\ r.id = ret.id /\ r.status = "Dropped" /\ r.last_played = Some(<<now>>)
          /\ r.added_date = <<0>>
    /\ Cardinality(games) > 1

\* C13: for an identifier that matches no row, update_game_status and
\* delete_game answered by a working store return success and leave the table
\* as it is, while get_game_by_id for that identifier returns an error.
C13_MissingIdIsNoOp ==
    /\ \A id \in Ids :
          (\A r \in games : r.id # id)
          => /\ \A status \in StatusChoices :
                    update_game_status(games, id, status, now, "Ok")
                        = [games |-> games, result |-> Ok(Unit)]
             /\ delete_game(games, id, "Ok") = [games |-> games, result |-> Ok(Unit)]
             /\ IsErr(get_game_by_id(games, id, "Ok"))
    /\ (ret.op = "get_game_by_id" /\ \A r \in games : r.id # ret.id)
          => IsErr(ret.result)
    /\ (ret.op \in {"update_game_status", "delete_game"} /\ IsErr(ret.result))
          => ret.result = Err("sqlx")

\* C13 reached: a status update for an id that is in no row returned success
\* while the table holds a row it did not touch
C13_Witness ==
    /\ ret.op = "update_game_status" /\ IsOk(ret.result)
    /\ games # {}
    /\ \A r \in games : r.id # ret.id /\ r.last_played = None

\* The task is suspended on a network call or on file I/O
Suspended(t) ==
    \/ /\ task[t].cmd = "create_game"
       /\ task[t].at \in {"get_game_details", "download_icon", "extract_exe_icon"}
    \/ /\ task[t].cmd = "index_now" /\ task[t].at = "index_all"
       /\ \/ pass.at = "idle"
          \/ pass.at = "steam" /\ pass.queue = <<>>

\* C14: no desktop command holds the service lock while it is suspended on the
\* catalog fetch, the cover download or the icon extraction of create_game, or
\* on a launcher scan of index_now.
C14_NoLockAcrossSuspension ==
    \A t \in Tasks : Suspended(t) => mutex # Some(t)

\* The reads and writes of the store
StorageCalls ==
    {"insert_game", "get_all_games", "count_games", "count_by_platform",
     "count_by_status", "total_playtime", "update_game_status", "delete_game"}

\* The list, create, delete and stats paths, through the service and the routes
DirectPaths ==
    {"list_games", "get_stats", "create_game",
     "handlers::create_game", "handlers::delete_game_handler", "handlers::stats"}

\* C15: when a storage call of a direct CRUD or read path fails, the caller is
\* given an error, never a success or an empty or default result, and no
\* storage call is made a second time.
C15_StorageErrorsPropagate ==
    /\ ret.op \in DirectPaths
          => /\ (\E i \in 1..Len(ret.calls) :
                    ret.calls[i][1] \in StorageCalls /\ ret.calls[i][2] = "Err")
                => IsErr(ret.result)
             /\ \A i, j \in 1..Len(ret.calls) :
                    (ret.calls[i][1] = ret.calls[j][1]
                        /\ ret.calls[i][1] \in StorageCalls) => i = j
    /\ \A id \in Ids, status \in Statuses :
          /\ update_game_status(games, id, status, now, "Err")
                = [games |-> games, result |-> Err("sqlx")]
          /\ delete_game(games, id, "Err") = [games |-> games, result |-> Err("sqlx")]

\* The entry is an .item file read and parsed as a manifest
IsManifest(e) ==
    /\ IsOk(e) /\ Extension(e[2].name) = Some(<<"i", "t", "e", "m">>)
    /\ IsOk(e[2].read) /\ IsSome(e[2].read[2].json)

JsonOf(e) == Unwrap(e[2].read[2].json)

\* The manifest is one the scanner must emit a record for
Accepted(e) ==
    /\ IsManifest(e)
    /\ JsonOf(e).bIsApplication = Some(TRUE)
    /\ IsSome(JsonOf(e).DisplayName) /\ Unwrap(JsonOf(e).DisplayName) # <<>>
    /\ IsSome(JsonOf(e).AppName) /\ Unwrap(JsonOf(e).AppName) # ""

\* A scan of a directory that was listed without an error of the directory
ScannedDir ==
    /\ ret.op = "scan_epic_games_from"
    /\ ret.manifests_dir.kind = "dir" /\ IsOk(ret.manifests_dir.read_dir)
    /\ \A i \in 1..Len(ret.manifests_dir.read_dir[2]) :
          IsOk(ret.manifests_dir.read_dir[2][i])

\* C16: the Epic scanner emits a record for a parsed .item manifest exactly
\* when its is-application flag is present and true and its display name and
\* app name are present and non-empty; the output has one record per accepted
\* manifest, each with platform "PC", source "epic", source_id the app name.
C16_EpicAcceptance ==
    ScannedDir
    => LET accepted == SelectSeq(ret.manifests_dir.read_dir[2], Accepted)
       IN  /\ IsOk(ret.result)
           /\ Len(ret.result[2]) = Len(accepted)
           /\ \A i \in 1..Len(accepted) :
                 LET dg == ret.result[2][i]
                 IN  /\ dg.platform = "PC" /\ dg.source = "epic"
                     /\ dg.source_id = Unwrap(JsonOf(accepted[i]).AppName)
                     /\ dg.title = Unwrap(JsonOf(accepted[i]).DisplayName)

\* C16 reached: of a manifest with the flag true, one with the flag false and
\* one without the flag, only the first was emitted
C16_Witness ==
    /\ ScannedDir /\ IsOk(ret.result)
    /\ Len(ret.manifests_dir.read_dir[2]) = 3
    /\ \E i, j, k \in 1..3 :
          LET e == ret.manifests_dir.read_dir[2]
          IN  /\ Accepted(e[i])
              /\ IsManifest(e[j]) /\ JsonOf(e[j]).bIsApplication = Some(FALSE)
              /\ IsManifest(e[k]) /\ JsonOf(e[k]).bIsApplication = None
    /\ Len(ret.result[2]) = 1
    /\ ret.result[2][1].source_id = "e1"

\* C17: the record of an accepted manifest carries an executable path exactly
\* when install location and launch executable are both present and their
\* joined path exists on disk, and it is that joined path; install_path is the
\* manifest's install location in every case.
C17_EpicExePath ==
    (ScannedDir /\ IsOk(ret.result))
    => LET accepted == SelectSeq(ret.manifests_dir.read_dir[2], Accepted)
       IN  \A i \in 1..Len(accepted) :
               LET dg == ret.result[2][i]
                   json == JsonOf(accepted[i])
                   both == IsSome(json.InstallLocation) /\ IsSome(json.LaunchExecutable)
                   joined == IF Unwrap(json.InstallLocation) = <<>>
                             THEN Unwrap(json.LaunchExecutable)
                             ELSE Unwrap(json.InstallLocation) \o <<"/">>
                                      \o Unwrap(json.LaunchExecutable)
               IN  /\ i <= Len(ret.result[2])
                   /\ dg.install_path = json.InstallLocation
                   /\ IsSome(dg.exe_path) <=> (both /\ joined \in ret.exists)
                   /\ IsSome(dg.exe_path) => dg.exe_path = Some(joined)

\* C17 reached: with the launch executable on disk, a scan emitted a manifest
\* with the joined path and a manifest without launch executable with no
\* executable path, both with their install location
C17_Witness ==
    /\ ScannedDir /\ IsOk(ret.result)
    /\ ret.exists = {LaunchPath}
    /\ \E i \in 1..Len(ret.result[2]) :
          /\ ret.result[2][i].source_id = "e1"
          /\ ret.result[2][i].install_path = Some(InstallDir)
          /\ ret.result[2][i].exe_path = Some(LaunchPath)
    /\ \E i \in 1..Len(ret.result[2]) :
          /\ ret.result[2][i].source_id = "e2"
          /\ ret.result[2][i].install_path = Some(InstallDir)
          /\ ret.result[2][i].exe_path = None

\* C18: given a path that does not exist or is not a directory,
\* scan_epic_games_from returns success with an empty list.
C18_EpicMissingDir ==
    (ret.op = "scan_epic_games_from" /\ ret.manifests_dir.kind \in {"missing", "file"})
    => ret.result = Ok(<<>>)

\* C18 reached: a missing path was scanned
C18_Witness ==
    /\ ret.op = "scan_epic_games_from" /\ ret.manifests_dir.kind = "missing"
    /\ ret.result = Ok(<<>>)

\* The manifest file cannot be read or does not parse
Malformed(e) ==
    /\ IsOk(e) /\ Extension(e[2].name) = Some(<<"i", "t", "e", "m">>)
    /\ IsErr(e[2].read) \/ e[2].read[2].json = None

\* C19: malformed and unreadable .item files do not abort the scan: whatever
\* their number and their place in the listing, the scan returns success and
\* its output holds the record of every accepted manifest.
C19_EpicSkipsMalformed ==
    ScannedDir
    => /\ IsOk(ret.result)
       /\ \A i \in 1..Len(ret.manifests_dir.read_dir[2]) :
             LET e == ret.manifests_dir.read_dir[2][i]
             IN  Accepted(e) =>
                     \E k \in 1..Len(ret.result[2]) :
                         /\ ret.result[2][k].source_id = Unwrap(JsonOf(e).AppName)
                         /\ ret.result[2][k].title = Unwrap(JsonOf(e).DisplayName)

\* C19 reached: an accepted manifest listed between a malformed and an
\* unreadable one was emitted
C19_Witness ==
    /\ ScannedDir /\ IsOk(ret.result)
    /\ LET e == ret.manifests_dir.read_dir[2]
       IN  /\ Len(e) = 3
           /\ Malformed(e[1]) /\ Accepted(e[2]) /\ Malformed(e[3])
           /\ e[1] # e[3]
    /\ Len(ret.result[2]) = 1

\* The entry is a readable one with the `exe` extension and a lowercased name
\* that holds none of the excluded substrings
MainExe(e) ==
    /\ IsOk(e)
    /\ Len(e[2].name) > 4
    /\ SubSeq(e[2].name, Len(e[2].name) - 3, Len(e[2].name)) = <<".", "e", "x", "e">>
    /\ \A pat \in ExcludedNames : ~Contains(ToLowercase(e[2].name), pat)

\* C20: find_main_exe returns the first entry, in listing order, with the
\* `exe` extension whose lowercased file name holds none of unins, redist,
\* setup, crash, ue4prereq, dxsetup, as its path under the install directory;
\* it returns nothing when the path is not a directory or no entry qualifies,
\* and an excluded executable earlier in the listing does not end the search
C20_FindMainExe ==
    ret.op = "find_main_exe" =>
        LET d == ret.install_dir
            listing == IF d.kind = "dir" /\ IsOk(d.read_dir) THEN d.read_dir[2] ELSE <<>>
            hits == {i \in 1..Len(listing) : MainExe(listing[i])}
        IN  IF hits = {} THEN ret.result = None
            ELSE LET first == CHOOSE i \in hits : \A j \in hits : i <= j
                 IN  ret.result = Some(d.path \o <<"/">> \o listing[first][2].name)

\* C20 reached: the listing starts with an excluded executable and the game
\* executable listed after it was returned
C20_Witness ==
    /\ ret.op = "find_main_exe"
    /\ ret.install_dir.kind = "dir" /\ IsOk(ret.install_dir.read_dir)
    /\ Len(ret.install_dir.read_dir[2]) >= 2
    /\ ret.install_dir.read_dir[2][1] = FileEntry(ExeName(<<"S", "e", "t", "u", "p">>))
    /\ ret.install_dir.read_dir[2][2] = FileEntry(ExeName(<<"g">>))
    /\ ret.result = Some(<<"d", "/", "g", ".", "e", "x", "e">>)

\* Some stretch of `str` LIKE-matches `query`
LikeContains(str, query) ==
    \E i \in 1..(Len(str) + 1), j \in 0..Len(str) :
        i <= j + 1 /\ Like(query, SubSeq(str, i, j))

\* `query` holds no character LIKE treats as a wildcard
Literal(query) == \A k \in 1..Len(query) : query[k] \notin {"%", "_"}

\* The rows a successful search returned, each once
Returned(result) == {result[2][i] : i \in 1..Len(result[2])}

\* C21: a successful search_games(q) returns each row once and exactly the
\* rows of the table whose title contains q or whose genre is present and
\* contains q, containment being taken under LIKE matching; for a q without
\* `%` and `_` that is containment of q as written, letter case aside
C21_SearchExact ==
    [][Called("search_games") /\ IsOk(ret'.result) =>
        /\ Len(ret'.result[2]) = Cardinality(Returned(ret'.result))
        /\ Returned(ret'.result) =
               {r \in games : \/ LikeContains(r.title, ret'.query)
                              \/ IsSome(r.genre) /\ LikeContains(r.genre[1], ret'.query)}
        /\ Literal(ret'.query) =>
               Returned(ret'.result) =
                   {r \in games :
                       \/ Contains(ToLowercase(r.title), ToLowercase(ret'.query))
                       \/ /\ r.genre # None
                          /\ Contains(ToLowercase(r.genre[1]), ToLowercase(ret'.query))}
    ]_vars

\* C21 reached: a search for "r" returned a row for its genre alone and left
\* out a row without a genre whose title does not hold it
C21_Witness ==
    /\ ret.op = "search_games" /\ IsOk(ret.result)
    /\ ret.query = <<"r">>
    /\ \E r \in Returned(ret.result) : r \in games /\ r.genre = Some(<<"R", "h">>)
    /\ \E r \in games : r.genre = None /\ r \notin Returned(ret.result)

\* The store answers every read of the stats
StoreAnswers(env) ==
    env.count = "Ok" /\ env.platform = "Ok" /\ env.status = "Ok" /\ env.playtime = "Ok"

\* C22: get_stats on an empty table, the store answering, returns success
\* with total_games 0, no platform group, no status group and total_playtime
\* 0: the sum over no rows is neither an error nor a missing value
C22_EmptyStats ==
    ret.op = "get_stats" /\ games = {} /\ StoreAnswers(ret.env) =>
        /\ IsOk(ret.result)
        /\ ret.result[2].total_games = 0
        /\ ret.result[2].by_platform = {}
        /\ ret.result[2].by_status = {}
        /\ ret.result[2].total_playtime = 0

\* C22 reached: the stats of an empty table were read from a working store
\* and came back with a total playtime of 0
C22_Witness ==
    /\ ret.op = "get_stats" /\ games = {} /\ StoreAnswers(ret.env)
    /\ ret.calls = << <<"count_games", "Ok">>, <<"count_by_platform", "Ok">>,
                      <<"count_by_status", "Ok">>, <<"total_playtime", "Ok">> >>
    /\ IsOk(ret.result) /\ ret.result[2].total_playtime = 0

\* The task is inside its service call: past the lock, not yet returned
InService(t) == task[t].at \notin {"idle", "lock"}

\* C23: a desktop command is inside its service call only as the holder of
\* the service mutex, so at most one service call is in progress; the SELECT
\* and the write of the upserts of two index_now commands never interleave,
\* and no two rows come to share a (source, source_id) key
C23_CommandsSerialized ==
    /\ \A t \in Tasks : InService(t) => mutex = Some(t)
    /\ Cardinality({t \in Tasks : InService(t)}) <= 1
    /\ \A t \in Tasks : pc[t] # "idle" => InService(t)
    /\ \A r1, r2 \in games : SameKey(r1, r2) => r1 = r2

\* C23 reached: an index_now holds the lock between a SELECT that found
\* nothing and its INSERT, a second index_now waits at the lock, and an
\* earlier pass has already stored a row under a launcher key
C23_Witness ==
    \E t, u \in Tasks :
        /\ t # u
        /\ task[t].cmd = "index_now" /\ pc[t] = "write" /\ frame[t].existing = None
        /\ task[u].cmd = "index_now" /\ task[u].at = "lock"
        /\ \E r \in games : HasKey(r)

\* The step belongs to a re-index pass
InPass == pass.at # "idle" \/ pass'.at # "idle"

\* The row carries the key of the record the pass is about to upsert
BeingIndexed(r) ==
    pass.queue # <<>> /\ SameKey(r, discovered_to_game(Head(pass.queue)))

\* C24: no step of a re-index pass removes a row; the number of rows never
\* goes down, and every row whose key is not the one being upserted, so every
\* row the scanners no longer discover, stays in the table with all its
\* fields as they were
C24_ReindexKeepsRows ==
    [][InPass =>
        /\ Cardinality(games') >= Cardinality(games)
        /\ \A r \in games : \E r2 \in games' : r2.id = r.id
        /\ \A r \in games : ~BeingIndexed(r) => r \in games'
    ]_vars

\* C24 reached: a pass that upserted other records has returned, and a row
\* stored under the Steam key 42, which the pass did not discover, is in the
\* table
C24_Witness ==
    /\ ret.op = "index_all" /\ pass.at = "idle"
    /\ ret.result # None /\ IsOk(Unwrap(ret.result))
    /\ \E i \in 1..Len(ret.calls) : ret.calls[i][3] = "Ok"
    /\ \A i \in 1..Len(ret.calls) : ret.calls[i][2] # "42"
    /\ \E r \in games : r.source = Some("steam") /\ r.source_id = Some("42")
    /\ Cardinality(games) = 2

\* The records the create step produced: the stored row and, for the service,
\* the assembled and the returned record
Produced ==
    (games' \ games)
    \cup (IF ret'.op = "create_game"
          THEN {ret'.built} \cup (IF IsOk(ret'.result) THEN {ret'.result[2]} ELSE {})
          ELSE {})

\* C25: a record produced by create_game, in the service or in the route
\* handler, has exe_path exactly when the icon extraction ran and succeeded,
\* and then it is the supplied path and icon_path is present; when the
\* catalog step set the icon, the extraction failed, or the supplied path was
\* empty, exe_path is absent
C25_ExePathOnlyWithIcon ==
    [][Called("create_game") \/ Called("handlers::create_game") =>
        \A g \in Produced :
            /\ IsSome(g.exe_path) <=> Made(ret'.calls, "extract_exe_icon", "Ok")
            /\ IsSome(g.exe_path) =>
                  g.exe_path = ret'.input.exe_path /\ IsSome(g.icon_path)
            /\ (\/ CallsOf(ret'.calls, "download_icon") # {}
                \/ Made(ret'.calls, "extract_exe_icon", "Err")
                \/ ret'.input.exe_path = Some(<<>>)) => g.exe_path = None
    ]_vars

\* C25 reached: an executable was supplied, the catalog step set the icon,
\* and the record was stored without the executable path
C25_Witness ==
    /\ ret.op = "create_game" /\ IsOk(ret.result)
    /\ ret.input.exe_path = Some(ExeFile)
    /\ CallsOf(ret.calls, "download_icon") # {}
    /\ \E r \in games :
          /\ r.id = ret.result[2].id
          /\ r.exe_path = None
          /\ IsSome(r.icon_path)

\* C26: the setup hook can return as soon as it has spawned the task, whatever
\* the task has done; once it has returned the frontend can dispatch a command
\* while the service state is not yet registered; the state is registered
\* only by the last step of the task, after the connection and the migrations,
\* and a command dispatched before that does not reach the service
C26_SetupDoesNotWait ==
    /\ app.setup = "spawned" => ENABLED SetupReturn
    /\ app.setup = "returned" /\ ~app.managed => ENABLED DoDispatch
    /\ app.managed <=> app.init = "done"
    /\ \A t \in Tasks : task[t].at # "idle" => app.managed

\* C26 reached: setup has returned, the spawned task is still connecting or
\* migrating, and a command the frontend dispatched found no service state
C26_Witness ==
    /\ app.setup = "returned"
    /\ ~app.managed
    /\ app.init \in {"connect", "migrate"}
    /\ ret.op = "invoke" /\ ret.init = app.init
    /\ ret.result = Err("state not managed")

====
